---- MODULE Spec2Model ----
(***************************************************************************)
(* Model of the relay (server/src/index.ts): the in-memory room store, the *)
(* per-connection currentRoomId closure variable, the Socket.IO adapter's  *)
(* room membership, the join / move / disconnect handlers and the          *)
(* signalling relay, together with the notifications each handler emits;   *)
(* and of the voice-call clients (client/src/App.tsx and VoiceChatManager  *)
(* in client/src/game/WorldScene.ts): each endpoint's call state, peer     *)
(* connection, suspended async functions and the messages in flight.       *)
(***************************************************************************)
EXTENDS Integers, Sequences, FiniteSets, TLC

\* ---------------------------------------------------------------------
\*  Bounds and input domains
\* ---------------------------------------------------------------------

\* Number of connections (socket ids) that may ever connect.
MaxConns == 3

\* Number of client events (join:room, player:move, disconnect) the relay
\* processes in one run.
MaxEvents == 4

\* Pool of socket ids the transport hands out, one per connection.
ConnIds == <<"c1", "c2", "c3", "c4">>

Conns == {ConnIds[i] : i \in 1..MaxConns}

\* Room identifiers a client may send with join:room.  Any string is
\* accepted by the relay, the empty string included.
RoomIds == {"", "plaza"}

\* let currentRoomId: string | null = null
NULL == "null"

\* Outcomes <<dx, dy>> of the two draws of (Math.random() - 0.5) * 160,
\* each a value in [-80, 80).
SpawnJitter == {<<0, 0>>, <<-80, 79>>}

\* Payloads a client may send with player:move.
MovePayloads == {[x |-> 10, y |-> 20], [x |-> 30, y |-> 40]}

\* The endpoints that take part in calls.
CallParties == {"c1", "c2"}

\* Clicks in the call overlay (Talk, Accept, Decline, Hang up) per run.
MaxActs == 2

\* The candidates a peer connection gathers, by number.
CandidateNumbers == {1}

\* Candidates per peer connection where their order and their failures matter.
MaxCandidates == 3

\* ---------------------------------------------------------------------
\*  shared/src/index.ts: event names
\* ---------------------------------------------------------------------
ROOM_STATE    == "room:state"
PLAYER_JOINED == "player:joined"
PLAYER_LEFT   == "player:left"
PLAYER_MOVED  == "player:moved"
SELF_PLAYER   == "self:player"
CALL_REQUEST  == "call:request"
CALL_ACCEPT   == "call:accept"
CALL_DECLINE  == "call:decline"
CALL_END      == "call:end"
WEBRTC_OFFER  == "webrtc:offer"
WEBRTC_ANSWER == "webrtc:answer"
WEBRTC_ICE    == "webrtc:ice"

\* ---------------------------------------------------------------------
\*  State
\* ---------------------------------------------------------------------
VARIABLES
  status,          \* per socket id: "fresh" (not yet connected), "connected", "disconnected"
  currentRoomId,   \* per connection: the closure variable of io.on("connection")
  rooms,           \* roomId -> player map, a sequence of Player in insertion order
  sids,            \* Socket.IO adapter: per socket, the rooms it has joined with socket.join
  emitted,         \* the emissions of the handler that ran last, in emission order
  lastEvent,       \* the handler that ran last and its arguments (observation only)
  joinedNotices,   \* per <<receiver, id, roomId>>: player:joined deliveries so far (observation only)
  nEvents          \* client events processed so far

\* The browser clients: one endpoint per connection.
VARIABLES
  ep,              \* per connection: the client's VoiceChatManager and App call state
  out,             \* per connection: events the client has emitted, not yet handled by the relay
  inbox,           \* per connection: events the relay has emitted to the client, not yet handled
  nActs            \* clicks in the call overlay so far

relayVars == <<status, currentRoomId, rooms, sids, emitted, lastEvent, joinedNotices, nEvents>>

clientVars == <<ep, out, inbox, nActs>>

vars == <<status, currentRoomId, rooms, sids, emitted, lastEvent, joinedNotices, nEvents,
          ep, out, inbox, nActs>>

\* ---------------------------------------------------------------------
\*  Map<string, Player> as a sequence in insertion order
\* ---------------------------------------------------------------------
has(room, id) == \E i \in 1..Len(room) : room[i].id = id

indexOf(room, id) == CHOOSE i \in 1..Len(room) : room[i].id = id

\* Map.set: an existing key keeps its place, a new key goes last
set(room, id, p) ==
  IF has(room, id)
  THEN SubSeq(room, 1, indexOf(room, id) - 1) \o <<p>>
         \o SubSeq(room, indexOf(room, id) + 1, Len(room))
  ELSE Append(room, p)

get(room, id) == room[indexOf(room, id)]

NotId(p, id) == p.id # id

\* Map.delete
delete(room, id) == SelectSeq(room, LAMBDA p : NotId(p, id))

ids(room) == {room[i].id : i \in 1..Len(room)}

\* rooms.has / rooms.delete on the outer map
storeHas(store, roomId) == roomId \in DOMAIN store

storeDelete(store, roomId) == [r \in (DOMAIN store) \ {roomId} |-> store[r]]

\* function getOrCreateRoom(roomId): the store after the call
getOrCreateRoom(store, roomId) ==
  IF ~storeHas(store, roomId)
  THEN [r \in (DOMAIN store) \cup {roomId} |-> IF r = roomId THEN <<>> ELSE store[r]]
  ELSE store

COLORS == <<"#FF6B6B", "#4ECDC4", "#45B7D1", "#96CEB4",
            "#FFEAA7", "#DDA0DD", "#98D8C8", "#F7DC6F">>

\* Variant: past the end of the palette the last color is used.
pickColor_Clamped(index) ==
  IF index < Len(COLORS) THEN COLORS[index + 1] ELSE COLORS[Len(COLORS)]

pickColor(index) == COLORS[(index % Len(COLORS)) + 1]

\* JavaScript truthiness of a string | null: null and "" are falsy.
Falsy(v) == v = NULL \/ v = ""

\* ---------------------------------------------------------------------
\*  Socket.IO adapter: who a broadcast reaches
\* ---------------------------------------------------------------------
\* The sockets in adapter room `roomId`: those that called socket.join(roomId)
\* plus the socket whose own id is roomId (every socket is in its own room).
InAdapterRoom(st, sd, roomId) ==
  {c \in Conns : st[c] = "connected" /\ (roomId \in sd[c] \/ c = roomId)}

\* Variant: the broadcast does not exclude the sender (io.to for socket.to).
socketTo_WithSender(st, sd, sender, roomId) == InAdapterRoom(st, sd, roomId)

\* socket.to(roomId): everyone in the room except the sender
socketTo(st, sd, sender, roomId) == InAdapterRoom(st, sd, roomId) \ {sender}

\* io.to(roomId): everyone in the room
ioTo(st, sd, roomId) == InAdapterRoom(st, sd, roomId)

Emit(event, to, payload) == [event |-> event, to |-> to, payload |-> payload]

\* ---------------------------------------------------------------------
\*  Client: values held by VoiceChatManager and App
\* ---------------------------------------------------------------------
\* A session description: who created it, on which peer connection.
Sdp(type, of, gen) == [type |-> type, of |-> of, gen |-> gen]

\* No description (null).
NoSdp == Sdp("none", NULL, 0)

\* _pendingOffer = null
NoOffer == [from |-> NULL, sdp |-> NoSdp]

\* An ICE candidate: the n-th one gathered by connection `gen` of endpoint `of`.
Candidate(of, gen, n) == [of |-> of, gen |-> gen, n |-> n]

\* new RTCPeerConnection(...): no descriptions, nothing applied, nothing gathered
NewPc == [closed |-> FALSE, local |-> NoSdp, remote |-> NoSdp,
          applied |-> <<>>, gathered |-> 0]

\* A connection after close(): it does nothing any more.
ClosedPc == [closed |-> TRUE, local |-> NoSdp, remote |-> NoSdp,
             applied |-> <<>>, gathered |-> 0]

\* An async function suspended at an await: where it waits (`at`), its
\* arguments (peer, sdp), the peer connection whose operation it awaits
\* (gen, 0 for getUserMedia) and the candidates it still has to add (rest).
Task(at, peer, sdp, gen, rest) ==
  [at |-> at, peer |-> peer, sdp |-> sdp, gen |-> gen, rest |-> rest]

\* The fields of a VoiceChatManager as constructed, App's callPeerId, the
\* socket's connected flag (up) and, for the properties, the peer connections
\* created so far (pcs, pc is an index into it, 0 for null), the suspended
\* async functions (tasks), the candidates received so far, each with whether
\* it came before the remote description was set (iceSeen), and the endpoints
\* it was in a call with when its socket closed (lostWith), and the messages
\* the piece of code it ran last has passed to the onError callback (errors).
\* WorldScene's otherPlayers map gives, per remote player id, the position
\* its sprite is at or moving to (others); for the properties, the ids the
\* scene was told of by a snapshot or a player:joined (heard) and those it
\* was told have left (gone).
NewEndpoint ==
  [state |-> "idle", peerId |-> NULL, pc |-> 0, localStream |-> FALSE,
   remoteAudio |-> FALSE, iceBuffer |-> <<>>, remoteDescSet |-> FALSE,
   pendingOffer |-> NoOffer, callPeerId |-> NULL, up |-> FALSE,
   pcs |-> <<>>, tasks |-> <<>>, iceSeen |-> <<>>, lostWith |-> {},
   errors |-> <<>>, others |-> << >>, heard |-> {}, gone |-> {}]

\* ---------------------------------------------------------------------
\*  Init
\* ---------------------------------------------------------------------
Init ==
  /\ status = [c \in Conns |-> "fresh"]
  /\ currentRoomId = [c \in Conns |-> NULL]
  /\ rooms = [r \in {} |-> <<>>]
  /\ sids = [c \in Conns |-> {}]
  /\ emitted = <<>>
  /\ lastEvent = [kind |-> "init"]
  /\ joinedNotices = [k \in {} |-> 0]
  /\ nEvents = 0
  /\ ep = [c \in Conns |-> NewEndpoint]
  /\ out = [c \in Conns |-> <<>>]
  /\ inbox = [c \in Conns |-> <<>>]
  /\ nActs = 0

\* ---------------------------------------------------------------------
\*  io.on("connection"): a new socket, currentRoomId = null
\* ---------------------------------------------------------------------
Connect(c) ==
  /\ status[c] = "fresh"
  /\ status' = [status EXCEPT ![c] = "connected"]
  /\ currentRoomId' = [currentRoomId EXCEPT ![c] = NULL]
  /\ emitted' = <<>>
  /\ lastEvent' = [kind |-> "connect", id |-> c]
  /\ UNCHANGED <<rooms, sids, joinedNotices, nEvents>>
  /\ UNCHANGED clientVars

\* ---------------------------------------------------------------------
\*  socket.on(EVENTS.JOIN_ROOM, roomId)
\* ---------------------------------------------------------------------
\* const isRejoin = room.has(socket.id)
isRejoinOf(room, id) == has(room, id)

\* Variant: every join respawns, as if the rejoin guard were missing.
newPlayerOf_Respawn(room, id, roomId, dx, dy) ==
  [id |-> id, x |-> 800 + dx, y |-> 600 + dy, roomId |-> roomId,
   color |-> pickColor(Len(room))]

\* const newPlayer: Player = {...}
newPlayerOf(room, id, roomId, dx, dy) ==
  [id     |-> id,
   x      |-> IF isRejoinOf(room, id) THEN get(room, id).x ELSE 800 + dx,
   y      |-> IF isRejoinOf(room, id) THEN get(room, id).y ELSE 600 + dy,
   roomId |-> roomId,
   color  |-> IF isRejoinOf(room, id) THEN get(room, id).color ELSE pickColor(Len(room))]

\* Variant: the snapshot is not filtered.
existingPlayersOf_Unfiltered(room, id) == room

\* Array.from(room.values()).filter(p => p.id !== socket.id)
existingPlayersOf(room, id) == SelectSeq(room, LAMBDA p : NotId(p, id))

\* Variant: player:joined is never announced.
JoinEmissions_Unannounced(room2, id, roomId, newPlayer, isRejoin, st, sd) ==
  << Emit(ROOM_STATE, {id}, existingPlayersOf(room2, id)),
     Emit(SELF_PLAYER, {id}, newPlayer) >>

\* Variant: player:joined is announced on every join, rejoin or not.
JoinEmissions_AlwaysAnnounce(room2, id, roomId, newPlayer, isRejoin, st, sd) ==
  << Emit(ROOM_STATE, {id}, existingPlayersOf(room2, id)),
     Emit(SELF_PLAYER, {id}, newPlayer),
     Emit(PLAYER_JOINED, socketTo(st, sd, id, roomId), newPlayer) >>

\* The emissions of the join handler, in order.
JoinEmissions(room2, id, roomId, newPlayer, isRejoin, st, sd) ==
  << Emit(ROOM_STATE, {id}, existingPlayersOf(room2, id)),
     Emit(SELF_PLAYER, {id}, newPlayer) >>
  \o (IF ~isRejoin
      THEN << Emit(PLAYER_JOINED, socketTo(st, sd, id, roomId), newPlayer) >>
      ELSE << >>)

\* Count the player:joined deliveries of a handler's emissions.
CountJoined(jn, ems) ==
  LET joins == {i \in 1..Len(ems) : ems[i].event = PLAYER_JOINED}
      key(i, t) == <<t, ems[i].payload.id, ems[i].payload.roomId>>
      new == UNION {{key(i, t) : t \in ems[i].to} : i \in joins}
      n(k) == Cardinality({i \in joins : \E t \in ems[i].to : key(i, t) = k})
      old(k) == IF k \in DOMAIN jn THEN jn[k] ELSE 0
  IN [k \in (DOMAIN jn) \cup new |->
        IF old(k) + n(k) > 2 THEN 2 ELSE old(k) + n(k)]

\* The handler's effect on the relay.
joinRoom(c, roomId, dx, dy) ==
  /\ status[c] = "connected"
  /\ nEvents < MaxEvents
  /\ nEvents' = nEvents + 1
  /\ LET store1    == getOrCreateRoom(rooms, roomId)
         room      == store1[roomId]
         isRejoin  == isRejoinOf(room, c)
         newPlayer == newPlayerOf(room, c, roomId, dx, dy)
         room2     == set(room, c, newPlayer)
         sids2     == [sids EXCEPT ![c] = @ \cup {roomId}]
         ems       == JoinEmissions(room2, c, roomId, newPlayer, isRejoin, status, sids2)
     IN /\ currentRoomId' = [currentRoomId EXCEPT ![c] = roomId]
        /\ rooms' = [store1 EXCEPT ![roomId] = room2]
        /\ sids' = sids2
        /\ emitted' = ems
        /\ joinedNotices' = CountJoined(joinedNotices, ems)
        /\ lastEvent' = [kind |-> "join", id |-> c, roomId |-> roomId,
                         isRejoin |-> isRejoin, player |-> newPlayer]
  /\ UNCHANGED status

JoinRoom(c, roomId, dx, dy) ==
  /\ joinRoom(c, roomId, dx, dy)
  /\ UNCHANGED clientVars

\* ---------------------------------------------------------------------
\*  A handler throws
\* ---------------------------------------------------------------------
\* The argument of a handler whose event came without one: undefined, written
\* as a record so that it can be told from the payload objects.
Undefined == [undefined |-> TRUE]

\* Reading a property of undefined throws a TypeError.  Socket.IO calls the
\* listeners without a try/catch and the server installs no handler for
\* uncaught exceptions: the process exits, every socket is closed, the store
\* is gone and no socket connects any more.
uncaught(c, event) ==
  /\ status[c] = "connected"
  /\ nEvents < MaxEvents
  /\ nEvents' = nEvents + 1
  /\ status' = [k \in Conns |-> "disconnected"]
  /\ sids' = [k \in Conns |-> {}]
  /\ rooms' = [r \in {} |-> <<>>]
  /\ emitted' = <<>>
  /\ lastEvent' = [kind |-> "uncaught", id |-> c, event |-> event]
  /\ UNCHANGED <<currentRoomId, joinedNotices>>
  /\ UNCHANGED clientVars

\* ---------------------------------------------------------------------
\*  socket.on(EVENTS.PLAYER_MOVE, payload)
\* ---------------------------------------------------------------------
\* The three early returns: no current room, no such room, no such player.
MoveApplies(cur, store, id) ==
  /\ ~Falsy(cur)
  /\ storeHas(store, cur)
  /\ has(store[cur], id)

\* player.x = payload.x; player.y = payload.y
movedPlayer(player, payload) == [player EXCEPT !.x = payload.x, !.y = payload.y]

\* The store after the handler: the player updated in place, or nothing.
moveStore(store, cur, id, payload) ==
  IF MoveApplies(cur, store, id)
  THEN [store EXCEPT ![cur] = set(@, id, movedPlayer(get(@, id), payload))]
  ELSE store

\* Variant: the update goes to the whole room, the mover included.
moveEmitted_Echo(store, cur, id, payload, st, sd) ==
  IF MoveApplies(cur, store, id)
  THEN << Emit(PLAYER_MOVED, ioTo(st, sd, cur),
               [id |-> id, x |-> payload.x, y |-> payload.y]) >>
  ELSE << >>

\* Variant: the broadcast runs before the early returns.
moveEmitted_Unguarded(store, cur, id, payload, st, sd) ==
  << Emit(PLAYER_MOVED, socketTo(st, sd, id, cur),
          [id |-> id, x |-> payload.x, y |-> payload.y]) >>

\* socket.to(currentRoomId).emit(EVENTS.PLAYER_MOVED, {id, x, y}), reached
\* only past the early returns.
moveEmitted(store, cur, id, payload, st, sd) ==
  IF MoveApplies(cur, store, id)
  THEN << Emit(PLAYER_MOVED, socketTo(st, sd, id, cur),
               [id |-> id, x |-> payload.x, y |-> payload.y]) >>
  ELSE << >>

\* The handler with a payload object: its effect on the relay.
playerMove(c, payload) ==
  /\ status[c] = "connected"
  /\ nEvents < MaxEvents
  /\ nEvents' = nEvents + 1
  /\ rooms' = moveStore(rooms, currentRoomId[c], c, payload)
  /\ emitted' = moveEmitted(rooms, currentRoomId[c], c, payload, status, sids)
  /\ lastEvent' = [kind |-> "move", id |-> c, roomId |-> currentRoomId[c],
                   payload |-> payload,
                   applied |-> MoveApplies(currentRoomId[c], rooms, c)]
  /\ UNCHANGED <<status, currentRoomId, sids, joinedNotices>>

\* Without a payload `payload.x` throws, past the three early returns.
PlayerMove(c, payload) ==
  IF payload = Undefined /\ MoveApplies(currentRoomId[c], rooms, c)
  THEN uncaught(c, "player:move")
  ELSE playerMove(c, payload) /\ UNCHANGED clientVars

\* ---------------------------------------------------------------------
\*  socket.on("disconnect")
\* ---------------------------------------------------------------------
\* The two early returns: no current room, no such room.
DisconnectCleans(cur, store) ==
  /\ ~Falsy(cur)
  /\ storeHas(store, cur)

\* Variant: the emptied room is not removed from the store.
leaveRoom_KeepsEmpty(store, cur, id) == [store EXCEPT ![cur] = delete(@, id)]

\* room.delete(socket.id); if (room.size === 0) rooms.delete(currentRoomId)
leaveRoom(store, cur, id) ==
  IF Len(delete(store[cur], id)) = 0
  THEN storeDelete(store, cur)
  ELSE [store EXCEPT ![cur] = delete(@, id)]

\* The store after the handler.
disconnectStore(store, cur, id) ==
  IF DisconnectCleans(cur, store) THEN leaveRoom(store, cur, id) ELSE store

\* Variant: the others are not told.
disconnectEmitted_Silent(store, cur, id, st, sd) == << >>

\* io.to(currentRoomId).emit(EVENTS.PLAYER_LEFT, socket.id), reached only
\* past the early returns; st and sd are the adapter's state once the socket
\* has left every room, which it has when "disconnect" fires.
disconnectEmitted(store, cur, id, st, sd) ==
  IF DisconnectCleans(cur, store)
  THEN << Emit(PLAYER_LEFT, ioTo(st, sd, cur), id) >>
  ELSE << >>

\* The handler's effect on the relay.
disconnectHandler(c) ==
  /\ status[c] = "connected"
  /\ nEvents < MaxEvents
  /\ nEvents' = nEvents + 1
  /\ status' = [status EXCEPT ![c] = "disconnected"]
  /\ sids' = [sids EXCEPT ![c] = {}]
  /\ rooms' = disconnectStore(rooms, currentRoomId[c], c)
  /\ emitted' = disconnectEmitted(rooms, currentRoomId[c], c, status', sids')
  /\ lastEvent' = [kind |-> "disconnect", id |-> c, roomId |-> currentRoomId[c],
                   cleaned |-> DisconnectCleans(currentRoomId[c], rooms)]
  /\ UNCHANGED <<currentRoomId, joinedNotices>>

Disconnect(c) ==
  /\ disconnectHandler(c)
  /\ UNCHANGED clientVars

\* ---------------------------------------------------------------------
\*  relay(event, payload): the seven signalling handlers
\* ---------------------------------------------------------------------
\* The events registered with relay.
RelayEvents == {CALL_REQUEST, CALL_ACCEPT, CALL_DECLINE, CALL_END,
                WEBRTC_OFFER, WEBRTC_ANSWER, WEBRTC_ICE}

\* An id that was never handed out to a socket.
UnknownId == "zz"

\* What a client may put in payload.to: any string.
RelayTargets == Conns \cup RoomIds \cup {UnknownId}

\* What a client may send: a payload is a JSON object, here a function from
\* keys to values; the handler's TypeScript type is not enforced at run time.
RelayPayloads ==
  {[to |-> t] : t \in RelayTargets}
    \cup {[to |-> t, from |-> f] : t \in Conns, f \in Conns}

\* { ...a, ...b }: the keys of both, b's value where both have the key.
spread(a, b) ==
  [k \in (DOMAIN a) \cup (DOMAIN b) |-> IF k \in DOMAIN b THEN b[k] ELSE a[k]]

\* { from: socket.id, ...payload, ...extra }, extra undefined in every handler
relayBody(id, payload) == spread([from |-> id], payload)

\* payload.to: undefined when the payload object has no such key
targetOf(payload) == IF "to" \in DOMAIN payload THEN payload.to ELSE "undefined"

\* Variant: the relay forwards only between connections that share a room.
relayEmitted_SameRoom(id, event, payload, st, sd) ==
  << Emit(event, {t \in socketTo(st, sd, id, targetOf(payload)) : sd[t] \cap sd[id] # {}},
          relayBody(id, payload)) >>

\* socket.to(payload.to).emit(event, body)
relayEmitted(id, event, payload, st, sd) ==
  << Emit(event, socketTo(st, sd, id, targetOf(payload)), relayBody(id, payload)) >>

\* Without a payload `payload.to` throws.
Relay(c, event, payload) ==
  IF payload = Undefined
  THEN uncaught(c, event)
  ELSE /\ status[c] = "connected"
       /\ nEvents < MaxEvents
       /\ nEvents' = nEvents + 1
       /\ emitted' = relayEmitted(c, event, payload, status, sids)
       /\ lastEvent' = [kind |-> "relay", id |-> c, event |-> event, payload |-> payload]
       /\ UNCHANGED <<status, currentRoomId, rooms, sids, joinedNotices>>
       /\ UNCHANGED clientVars

\* ---------------------------------------------------------------------
\*  Specification
\* ---------------------------------------------------------------------
Next ==
  \/ \E c \in Conns : Connect(c)
  \/ \E c \in Conns, roomId \in RoomIds, d \in SpawnJitter :
        JoinRoom(c, roomId, d[1], d[2])
  \/ \E c \in Conns, payload \in MovePayloads : PlayerMove(c, payload)
  \/ \E c \in Conns : Disconnect(c)

Spec == Init /\ [][Next]_vars

\* The relay with its signalling handlers: connections come, join, relay
\* signalling events and go.
RelayNext ==
  \/ \E c \in Conns : Connect(c)
  \/ \E c \in Conns, roomId \in RoomIds : JoinRoom(c, roomId, 0, 0)
  \/ \E c \in Conns : Disconnect(c)
  \/ \E c \in Conns, event \in RelayEvents, payload \in RelayPayloads :
        Relay(c, event, payload)

RelaySpec == Init /\ [][RelayNext]_vars

\* What the clients of this repository send with a signalling event: a
\* payload addressed to a connection id.
PeerPayloads == {[to |-> t] : t \in Conns}

\* Signalling between peers: connections come, join rooms or none, and send
\* each other signalling events.
SignalNext ==
  \/ \E c \in Conns : Connect(c)
  \/ \E c \in Conns, roomId \in RoomIds : JoinRoom(c, roomId, 0, 0)
  \/ \E c \in Conns, event \in RelayEvents, payload \in PeerPayloads :
        Relay(c, event, payload)

SignalSpec == Init /\ [][SignalNext]_vars

\* The run of two clients in room "plaza": sockets connect at any time; one
\* client joins, another joins, the second (the second entry of the room's
\* map) moves to (10,20), the second disconnects.
PlazaNext ==
  \/ \E c \in Conns : Connect(c)
  \/ \E a \in Conns, j \in SpawnJitter :
        nEvents = 0 /\ JoinRoom(a, "plaza", j[1], j[2])
  \/ \E b \in Conns, j \in SpawnJitter :
        nEvents = 1 /\ ~has(rooms["plaza"], b) /\ JoinRoom(b, "plaza", j[1], j[2])
  \/ \E b \in Conns :
        nEvents = 2 /\ rooms["plaza"][2].id = b /\ PlayerMove(b, [x |-> 10, y |-> 20])
  \/ \E b \in Conns :
        nEvents = 3 /\ rooms["plaza"][2].id = b /\ Disconnect(b)

PlazaSpec == Init /\ [][PlazaNext]_vars

\* The relay checks nothing of what a client sends: a room may be named by
\* any string, another socket's id included, and an event may come with no
\* payload or with a payload object that has no target.
AnyRoomIds == {"plaza", ConnIds[1]}

AnyMoves == {[x |-> 10, y |-> 20], Undefined}

AnyPayloads == {[to |-> ConnIds[1]], [x |-> 10, y |-> 20], Undefined}

OpenNext ==
  \/ \E c \in Conns : Connect(c)
  \/ \E c \in Conns, roomId \in AnyRoomIds : JoinRoom(c, roomId, 0, 0)
  \/ \E c \in Conns, payload \in AnyMoves : PlayerMove(c, payload)
  \/ \E c \in Conns : Disconnect(c)
  \/ \E c \in Conns, event \in RelayEvents, payload \in AnyPayloads :
        Relay(c, event, payload)

OpenSpec == Init /\ [][OpenNext]_vars

\* ---------------------------------------------------------------------
\*  VoiceChatManager (client): the methods as functions of the endpoint
\* ---------------------------------------------------------------------
Msg(event, payload) == [event |-> event, payload |-> payload]

\* The result of running a piece of client code: the endpoint afterwards and
\* the events it emitted on the socket, in order.
Res(E, emits) == [E |-> E, emits |-> emits]

addTask(E, t) == [E EXCEPT !.tasks = Append(@, t)]

removeTask(E, i) ==
  [E EXCEPT !.tasks = SubSeq(E.tasks, 1, i - 1) \o SubSeq(E.tasks, i + 1, Len(E.tasks))]

NotOnPc(t, g) == t.gen # g

\* this.pc?.close(): the operations pending on a closed connection never settle
closePc(E) ==
  IF E.pc = 0
  THEN E
  ELSE [E EXCEPT !.pcs[E.pc] = ClosedPc,
                 !.tasks = SelectSeq(E.tasks, LAMBDA t : NotOnPc(t, E.pc))]

\* private cleanup(); setState("idle") runs App's onStateChange, which
\* clears callPeerId
cleanup(E) ==
  [closePc(E) EXCEPT !.pc = 0, !.localStream = FALSE, !.remoteAudio = FALSE,
                     !.peerId = NULL, !.remoteDescSet = FALSE, !.iceBuffer = <<>>,
                     !.pendingOffer = NoOffer, !.state = "idle",
                     !.callPeerId = NULL]

\* The message of the catch blocks of initiateCall and acceptCall.
MicMessage == "Microphone access denied or unavailable."

\* The message of onconnectionstatechange.
FailedMessage == "Connection failed. You may be behind a strict firewall."

\* private handleError(msg): cleanup(), then the onError callback
handleError(E, msg) == [cleanup(E) EXCEPT !.errors = Append(@, msg)]

\* endCall(): what it emits, and the endpoint afterwards
endCallEmits(E) ==
  IF ~Falsy(E.peerId) /\ E.state # "idle"
  THEN << Msg(CALL_END, [to |-> E.peerId]) >>
  ELSE << >>

endCall(E) == cleanup(E)

\* markReceiving(fromId)
markReceiving(E, fromId) == [E EXCEPT !.peerId = fromId, !.state = "receiving"]

\* initiateCall(peerId) up to its first await (getUserMedia)
initiateCall(E, peerId) ==
  IF E.state # "idle"
  THEN E
  ELSE addTask([E EXCEPT !.peerId = peerId, !.state = "calling"],
               Task("I.gum", peerId, NoSdp, 0, <<>>))

\* acceptCall(peerId, offerSdp) up to its first await (getUserMedia)
acceptCall(E, peerId, offerSdp) ==
  IF E.state # "receiving"
  THEN E
  ELSE addTask([E EXCEPT !.peerId = peerId],
               Task("A.gum", peerId, offerSdp, 0, <<>>))

\* private createPeerConnection(): the connection it replaces is not closed
createPeerConnection(E) ==
  [E EXCEPT !.pcs = Append(E.pcs, NewPc), !.pc = Len(E.pcs) + 1,
            !.remoteDescSet = FALSE, !.iceBuffer = <<>>]

\* pc.ontrack
ontrack(E) == [E EXCEPT !.remoteAudio = TRUE, !.state = "connected"]

\* signalingState "have-local-offer": the state in which an answer is accepted
HaveLocalOffer(p) == p.local.type = "offer" /\ p.remote.type = "none"

\* addIceCandidate: rejected (and the rejection ignored) without a remote
\* description
applyCandidate(p, c) ==
  IF p.remote.type = "none" THEN p ELSE [p EXCEPT !.applied = Append(p.applied, c)]

\* What follows `await this.flushIceBuffer()`: nothing in the webrtc:answer
\* handler; in acceptCall `this.pc!.createAnswer()`, which throws without a
\* connection and is rejected without a remote offer.
afterFlush(E, at, peer) ==
  LET E1 == [E EXCEPT !.iceBuffer = <<>>]
  IN IF at = "N.flush"
     THEN Res(E1, <<>>)
     ELSE IF E1.pc = 0 \/ E1.pcs[E1.pc].remote.type # "offer"
          THEN Res(handleError(E1, MicMessage), <<>>)
          ELSE Res(addTask(E1, Task("A.answer", peer, NoSdp, E1.pc, <<>>)), <<>>)

\* private flushIceBuffer(), at the candidate Head(buf) of its loop: it awaits
\* this.pc?.addIceCandidate, which without a connection is no await of an
\* operation.
flushIceBuffer(E, at, peer, buf) ==
  IF buf = <<>> \/ E.pc = 0
  THEN afterFlush(E, at, peer)
  ELSE Res(addTask(E, Task(at, peer, NoSdp, E.pc, buf)), <<>>)

\* An async function of endpoint e goes on after the await it was suspended
\* at: the code from that await to the next one (or to the end).
resume(e, E, t) ==
  CASE t.at = "I.gum" ->
         \* this.localStream = stream; createPeerConnection(); pc.createOffer()
         LET E1 == createPeerConnection([E EXCEPT !.localStream = TRUE])
         IN Res(addTask(E1, Task("I.offer", t.peer, NoSdp, E1.pc, <<>>)), <<>>)
    [] t.at = "A.gum" ->
         \* this.localStream = stream; createPeerConnection(); pc.setRemoteDescription(offer)
         LET E1 == createPeerConnection([E EXCEPT !.localStream = TRUE])
         IN Res(addTask(E1, Task("A.srd", t.peer, t.sdp, E1.pc, <<>>)), <<>>)
    [] t.at = "I.offer" ->
         \* this.pc!.setLocalDescription(offer): throws without a connection,
         \* rejected on a connection that did not create the offer
         IF E.pc # t.gen
         THEN Res(handleError(E, MicMessage), <<>>)
         ELSE Res(addTask(E, Task("I.sld", t.peer, Sdp("offer", e, t.gen), t.gen, <<>>)), <<>>)
    [] t.at = "I.sld" ->
         Res([E EXCEPT !.pcs[t.gen].local = t.sdp],
             << Msg(WEBRTC_OFFER, [to |-> t.peer, sdp |-> t.sdp]) >>)
    [] t.at = "A.srd" ->
         \* the description is set and the track event fired before the await returns
         LET E1 == [ontrack([E EXCEPT !.pcs[t.gen].remote = t.sdp])
                      EXCEPT !.remoteDescSet = TRUE]
         IN flushIceBuffer(E1, "A.flush", t.peer, E1.iceBuffer)
    [] t.at = "N.srd" ->
         IF HaveLocalOffer(E.pcs[t.gen])
         THEN LET E1 == [ontrack([E EXCEPT !.pcs[t.gen].remote = t.sdp])
                           EXCEPT !.remoteDescSet = TRUE]
              IN flushIceBuffer(E1, "N.flush", t.peer, E1.iceBuffer)
         ELSE Res(E, <<>>)
    [] t.at \in {"A.flush", "N.flush"} ->
         LET E1 == [E EXCEPT !.pcs[t.gen] = applyCandidate(E.pcs[t.gen], Head(t.rest))]
         IN flushIceBuffer(E1, t.at, t.peer, Tail(t.rest))
    [] t.at = "A.answer" ->
         IF E.pc # t.gen
         THEN Res(handleError(E, MicMessage), <<>>)
         ELSE Res(addTask(E, Task("A.sld", t.peer, Sdp("answer", e, t.gen), t.gen, <<>>)), <<>>)
    [] t.at = "A.sld" ->
         Res([E EXCEPT !.pcs[t.gen].local = t.sdp],
             << Msg(WEBRTC_ANSWER, [to |-> t.peer, sdp |-> t.sdp]) >>)
    [] t.at = "ice.add" ->
         Res([E EXCEPT !.pcs[t.gen] = applyCandidate(E.pcs[t.gen], Head(t.rest))], <<>>)

\* socket.on(EVENTS.WEBRTC_OFFER)
onWebrtcOffer(E, payload) ==
  [E EXCEPT !.pendingOffer = [from |-> payload.from, sdp |-> payload.sdp]]

\* socket.on(EVENTS.WEBRTC_ANSWER) up to its first await
onWebrtcAnswer(E, payload) ==
  IF E.pc = 0
  THEN E
  ELSE addTask(E, Task("N.srd", NULL, payload.sdp, E.pc, <<>>))

\* Variant: a candidate that comes before the remote description is dropped.
onWebrtcIce_DropEarly(E, payload) ==
  LET early == ~E.remoteDescSet \/ E.pc = 0
      E1 == [E EXCEPT !.iceSeen = Append(E.iceSeen, [candidate |-> payload.candidate,
                                                     early |-> early])]
  IN IF early
     THEN E1
     ELSE addTask(E1, Task("ice.add", NULL, NoSdp, E1.pc, << payload.candidate >>))

\* socket.on(EVENTS.WEBRTC_ICE) up to its await
onWebrtcIce(E, payload) ==
  LET early == ~E.remoteDescSet \/ E.pc = 0
      E1 == [E EXCEPT !.iceSeen = Append(E.iceSeen, [candidate |-> payload.candidate,
                                                     early |-> early])]
  IN IF early
     THEN [E1 EXCEPT !.iceBuffer = Append(E1.iceBuffer, payload.candidate)]
     ELSE addTask(E1, Task("ice.add", NULL, NoSdp, E1.pc, << payload.candidate >>))

\* ---------------------------------------------------------------------
\*  App (client): the call handlers
\* ---------------------------------------------------------------------
\* Variant: a call request is never auto-rejected.
callRequestBusy_Never(E) == FALSE

\* voiceChat.getState() !== "idle"
callRequestBusy(E) == E.state # "idle"

\* socket.on(EVENTS.CALL_REQUEST)
onCallRequest(E, payload) ==
  IF callRequestBusy(E)
  THEN Res(E, << Msg(CALL_DECLINE, [to |-> payload.from]) >>)
  ELSE Res([markReceiving(E, payload.from) EXCEPT !.callPeerId = payload.from], <<>>)

\* socket.on(EVENTS.CALL_DECLINE): voiceChat.endCall()
onCallDecline(E) == Res(endCall(E), endCallEmits(E))

\* handleTalkClicked(targetId), past its guard
handleTalkClicked(E, targetId) ==
  Res(initiateCall([E EXCEPT !.callPeerId = targetId], targetId),
      << Msg(CALL_REQUEST, [to |-> targetId]) >>)

\* handleAccept(), past its guard
handleAccept(E) ==
  Res(acceptCall(E, E.callPeerId, E.pendingOffer.sdp),
      << Msg(CALL_ACCEPT, [to |-> E.callPeerId]) >>)

\* handleDecline()
handleDecline(E) ==
  Res(endCall(E),
      (IF ~Falsy(E.callPeerId)
       THEN << Msg(CALL_DECLINE, [to |-> E.callPeerId]) >>
       ELSE << >>) \o endCallEmits(E))

\* handleHangUp()
handleHangUp(E) == Res(endCall(E), endCallEmits(E))

\* ---------------------------------------------------------------------
\*  Client steps
\* ---------------------------------------------------------------------
\* socket.emit: the events go out while the socket is connected, and stay in
\* the socket's send buffer otherwise.
socketEmit(q, up, emits) == IF up THEN q \o emits ELSE q

\* Endpoint e ran a piece of code with result r; `received` tells whether the
\* code was the handler of the event at the head of its inbox.  Of the
\* onError messages only those of this piece of code are kept.
Ran(e, r, received) ==
  /\ ep' = [ep EXCEPT ![e] = [r.E EXCEPT !.errors =
                SubSeq(r.E.errors, Len(ep[e].errors) + 1, Len(r.E.errors))]]
  /\ out' = [out EXCEPT ![e] = socketEmit(out[e], ep[e].up, r.emits)]
  /\ inbox' = IF received THEN [inbox EXCEPT ![e] = Tail(inbox[e])] ELSE inbox
  /\ UNCHANGED relayVars

\* The user clicks a button of the call overlay.
UserActs(e) ==
  /\ ep[e].up
  /\ nActs < MaxActs
  /\ nActs' = nActs + 1

\* Talk: shown while callState is idle and a player is nearby
Talk(e, targetId) ==
  /\ UserActs(e)
  /\ ep[e].state = "idle"
  /\ targetId # e
  /\ Ran(e, handleTalkClicked(ep[e], targetId), FALSE)

\* Accept: shown while callState is receiving
Accept(e) ==
  /\ UserActs(e)
  /\ ep[e].state = "receiving"
  /\ ep[e].pendingOffer # NoOffer
  /\ ~Falsy(ep[e].callPeerId)
  /\ Ran(e, handleAccept(ep[e]), FALSE)

\* Decline: shown while callState is receiving
Decline(e) ==
  /\ UserActs(e)
  /\ ep[e].state = "receiving"
  /\ Ran(e, handleDecline(ep[e]), FALSE)

\* Cancel / Hang up: shown while callState is calling or connected
HangUp(e) ==
  /\ UserActs(e)
  /\ ep[e].state \in {"calling", "connected"}
  /\ Ran(e, handleHangUp(ep[e]), FALSE)

\* The endpoints e is in a call with: its peer, and those whose peer it is.
InCallWith(e) ==
  {t \in CallParties \ {e} :
     \/ ep[e].state # "idle" /\ ep[e].peerId = t
     \/ ep[t].state # "idle" /\ ep[t].peerId = e}

\* handleLeave(): voiceChat.endCall(); socket.disconnect(), which runs
\* onDisconnect and with it endCall() once more
Leave(e) ==
  /\ ep[e].up
  /\ UNCHANGED nActs
  /\ ep' = [ep EXCEPT ![e] = [endCall(endCall(ep[e])) EXCEPT
                                 !.up = FALSE, !.lostWith = InCallWith(e),
                                 !.errors = <<>>]]
  /\ out' = [out EXCEPT ![e] = socketEmit(out[e], TRUE, endCallEmits(ep[e]))]
  /\ inbox' = [inbox EXCEPT ![e] = <<>>]
  /\ UNCHANGED relayVars

\* The socket's transport is lost: onDisconnect runs voiceChat.endCall() on
\* a socket that is no longer connected.
SocketLost(e) ==
  /\ ep[e].up
  /\ UNCHANGED nActs
  /\ ep' = [ep EXCEPT ![e] = [endCall(ep[e]) EXCEPT
                                 !.up = FALSE, !.lostWith = InCallWith(e),
                                 !.errors = <<>>]]
  /\ out' = [out EXCEPT ![e] = socketEmit(out[e], FALSE, endCallEmits(ep[e]))]
  /\ inbox' = [inbox EXCEPT ![e] = <<>>]
  /\ UNCHANGED relayVars

\* getUserMedia resolves for the i-th suspended function
UserMediaGranted(e, i) ==
  /\ i \in DOMAIN ep[e].tasks
  /\ ep[e].tasks[i].gen = 0
  /\ Ran(e, resume(e, removeTask(ep[e], i), ep[e].tasks[i]), FALSE)
  /\ UNCHANGED nActs

\* getUserMedia rejects: the catch block runs handleError
UserMediaDenied(e, i) ==
  /\ i \in DOMAIN ep[e].tasks
  /\ ep[e].tasks[i].gen = 0
  /\ Ran(e, Res(handleError(removeTask(ep[e], i), MicMessage), <<>>), FALSE)
  /\ UNCHANGED nActs

\* The oldest pending operation of a peer connection settles; the operations
\* of one connection are chained.
PcOperationDone(e, i) ==
  /\ i \in DOMAIN ep[e].tasks
  /\ ep[e].tasks[i].gen # 0
  /\ \A j \in 1..(i - 1) : ep[e].tasks[j].gen # ep[e].tasks[i].gen
  /\ Ran(e, resume(e, removeTask(ep[e], i), ep[e].tasks[i]), FALSE)
  /\ UNCHANGED nActs

\* pc.onicecandidate of connection g, which gathers once it has a local
\* description; `numbers` are the candidates a connection comes to gather
onicecandidate(e, g, numbers) ==
  /\ g \in DOMAIN ep[e].pcs
  /\ ~ep[e].pcs[g].closed
  /\ ep[e].pcs[g].local.type # "none"
  /\ ep[e].pcs[g].gathered + 1 \in numbers
  /\ Ran(e, Res([ep[e] EXCEPT !.pcs[g].gathered = @ + 1],
                IF ~Falsy(ep[e].peerId)
                THEN << Msg(WEBRTC_ICE,
                            [to |-> ep[e].peerId,
                             candidate |-> Candidate(e, g, ep[e].pcs[g].gathered + 1)]) >>
                ELSE << >>), FALSE)
  /\ UNCHANGED nActs

IceCandidate(e, g) == onicecandidate(e, g, CandidateNumbers)

\* The same with MaxCandidates candidates per connection.
IceCandidates(e, g) == onicecandidate(e, g, 1..MaxCandidates)

\* Variant: a rejected addIceCandidate ends the call, as if its catch block
\* were missing.
ignored_Fatal(E, t) == Res(handleError(E, MicMessage), <<>>)

\* catch { /* ignore */ }: what follows a rejected addIceCandidate, nothing
\* in the webrtc:ice handler, the next candidate in flushIceBuffer
ignored(E, t) ==
  IF t.at = "ice.add"
  THEN Res(E, <<>>)
  ELSE flushIceBuffer(E, t.at, t.peer, Tail(t.rest))

\* addIceCandidate rejects (a candidate the connection cannot use): the
\* oldest pending operation of a peer connection, an addIceCandidate, fails
CandidateRejected(e, i) ==
  /\ i \in DOMAIN ep[e].tasks
  /\ ep[e].tasks[i].at \in {"A.flush", "N.flush", "ice.add"}
  /\ \A j \in 1..(i - 1) : ep[e].tasks[j].gen # ep[e].tasks[i].gen
  /\ Ran(e, ignored(removeTask(ep[e], i), ep[e].tasks[i]), FALSE)
  /\ UNCHANGED nActs

\* pc.onconnectionstatechange with connectionState "failed" (handleError) or
\* "disconnected" (cleanup), of a connection that has both descriptions
PeerConnectionLost(e) ==
  /\ ep[e].pc # 0
  /\ ep[e].pcs[ep[e].pc].local.type # "none"
  /\ ep[e].pcs[ep[e].pc].remote.type # "none"
  /\ \E r \in {Res(handleError(ep[e], FailedMessage), <<>>), Res(cleanup(ep[e]), <<>>)} :
       Ran(e, r, FALSE)
  /\ UNCHANGED nActs

\* The event at the head of e's inbox is `event`, and e's socket is connected.
Receives(e, event) ==
  /\ ep[e].up
  /\ inbox[e] # <<>>
  /\ Head(inbox[e]).event = event
  /\ UNCHANGED nActs

OnCallRequest(e) ==
  /\ Receives(e, CALL_REQUEST)
  /\ Ran(e, onCallRequest(ep[e], Head(inbox[e]).payload), TRUE)

OnCallAccept(e) ==
  /\ Receives(e, CALL_ACCEPT)
  /\ Ran(e, Res(ep[e], <<>>), TRUE)

OnCallDecline(e) ==
  /\ Receives(e, CALL_DECLINE)
  /\ Ran(e, onCallDecline(ep[e]), TRUE)

OnCallEnd(e) ==
  /\ Receives(e, CALL_END)
  /\ Ran(e, Res(cleanup(ep[e]), <<>>), TRUE)

OnWebrtcOffer(e) ==
  /\ Receives(e, WEBRTC_OFFER)
  /\ Ran(e, Res(onWebrtcOffer(ep[e], Head(inbox[e]).payload), <<>>), TRUE)

OnWebrtcAnswer(e) ==
  /\ Receives(e, WEBRTC_ANSWER)
  /\ Ran(e, Res(onWebrtcAnswer(ep[e], Head(inbox[e]).payload), <<>>), TRUE)

OnWebrtcIce(e) ==
  /\ Receives(e, WEBRTC_ICE)
  /\ Ran(e, Res(onWebrtcIce(ep[e], Head(inbox[e]).payload), <<>>), TRUE)

\* onLeft: the presence events change nothing of the call
OnPlayerLeft(e) ==
  /\ Receives(e, PLAYER_LEFT)
  /\ Ran(e, Res(ep[e], <<>>), TRUE)

\* ---------------------------------------------------------------------
\*  Relay steps on the clients' sockets
\* ---------------------------------------------------------------------
\* What the emissions `ems` of a relay handler add to connection t's inbox.
ReachesClient(m, t) == t \in m.to

toInbox(ems, t) ==
  LET sel == SelectSeq(ems, LAMBDA m : ReachesClient(m, t))
  IN [i \in 1..Len(sel) |-> Msg(sel[i].event, sel[i].payload)]

\* Variant: what is delivered overtakes what the client has not handled yet.
delivered_Overtaking(inb, ems) ==
  [t \in Conns |-> IF ep[t].up THEN toInbox(ems, t) \o inb[t] ELSE inb[t]]

delivered(inb, ems) ==
  [t \in Conns |-> IF ep[t].up THEN inb[t] \o toInbox(ems, t) ELSE inb[t]]

\* The relay handles the oldest event client c has emitted: one of the seven
\* signalling handlers.
Forward(c) ==
  /\ status[c] = "connected"
  /\ out[c] # <<>>
  /\ out' = [out EXCEPT ![c] = Tail(out[c])]
  /\ inbox' = delivered(inbox,
                relayEmitted(c, Head(out[c]).event, Head(out[c]).payload, status, sids))
  /\ UNCHANGED <<ep, nActs>>
  /\ UNCHANGED relayVars

\* The relay notices that c's socket is closed, after it has handled what c
\* had sent: the disconnect handler.
ServerDisconnect(c) ==
  /\ ~ep[c].up
  /\ out[c] = <<>>
  /\ disconnectHandler(c)
  /\ inbox' = delivered(inbox, emitted')
  /\ UNCHANGED <<ep, out, nActs>>

\* ---------------------------------------------------------------------
\*  Clients in a room
\* ---------------------------------------------------------------------
CallRoom == "plaza"

\* The room store after connection c has joined CallRoom.
joinedStore(store, c) ==
  LET store1 == getOrCreateRoom(store, CallRoom)
      room   == store1[CallRoom]
  IN [store1 EXCEPT ![CallRoom] = set(room, c, newPlayerOf(room, c, CallRoom, 0, 0))]

\* The state after the call parties have connected and joined CallRoom.
CallInit ==
  /\ status = [c \in Conns |-> IF c \in CallParties THEN "connected" ELSE "fresh"]
  /\ currentRoomId = [c \in Conns |-> IF c \in CallParties THEN CallRoom ELSE NULL]
  /\ rooms = joinedStore(joinedStore([r \in {} |-> <<>>], "c1"), "c2")
  /\ sids = [c \in Conns |-> IF c \in CallParties THEN {CallRoom} ELSE {}]
  /\ emitted = <<>>
  /\ lastEvent = [kind |-> "init"]
  /\ joinedNotices = (<<"c1", "c2", CallRoom>> :> 1)
  /\ nEvents = 0
  /\ ep = [c \in Conns |-> [NewEndpoint EXCEPT !.up = (c \in CallParties)]]
  /\ out = [c \in Conns |-> <<>>]
  /\ inbox = [c \in Conns |-> <<>>]
  /\ nActs = 0

\* Every user action starts at most one async function and so creates at
\* most one peer connection; a received answer or candidate suspends one more.
\* A client may start with two calls begun and cancelled (TwiceCancelled).
PcSlots == 1..(MaxActs + 2)

TaskSlots == 1..((MaxActs + 2) * (Cardinality(CandidateNumbers) + 2))

CallNext ==
  \/ \E e \in CallParties, t \in CallParties : Talk(e, t)
  \/ \E e \in CallParties : Accept(e)
  \/ \E e \in CallParties : Decline(e)
  \/ \E e \in CallParties : HangUp(e)
  \/ \E e \in CallParties : Leave(e)
  \/ \E e \in CallParties : SocketLost(e)
  \/ \E e \in CallParties, i \in TaskSlots : UserMediaGranted(e, i)
  \/ \E e \in CallParties, i \in TaskSlots : UserMediaDenied(e, i)
  \/ \E e \in CallParties, i \in TaskSlots : PcOperationDone(e, i)
  \/ \E e \in CallParties, g \in PcSlots : IceCandidate(e, g)
  \/ \E e \in CallParties : PeerConnectionLost(e)
  \/ \E e \in CallParties : OnCallRequest(e)
  \/ \E e \in CallParties : OnCallAccept(e)
  \/ \E e \in CallParties : OnCallDecline(e)
  \/ \E e \in CallParties : OnCallEnd(e)
  \/ \E e \in CallParties : OnWebrtcOffer(e)
  \/ \E e \in CallParties : OnWebrtcAnswer(e)
  \/ \E e \in CallParties : OnWebrtcIce(e)
  \/ \E e \in CallParties : OnPlayerLeft(e)
  \/ \E c \in CallParties : Forward(c)
  \/ \E c \in CallParties : ServerDisconnect(c)

CallSpec == CallInit /\ [][CallNext]_vars

\* The first click of a run is Talk.
FirstTalk(e, targetId) ==
  /\ nActs = 0
  /\ Talk(e, targetId)

\* One call that nothing disturbs: a user calls an idle endpoint, whose user
\* accepts; no one declines, hangs up or leaves and nothing fails.
OneCallNext ==
  \/ \E e \in CallParties, t \in CallParties : FirstTalk(e, t)
  \/ \E e \in CallParties : Accept(e)
  \/ \E e \in CallParties, i \in TaskSlots : UserMediaGranted(e, i)
  \/ \E e \in CallParties, i \in TaskSlots : PcOperationDone(e, i)
  \/ \E e \in CallParties, g \in PcSlots : IceCandidate(e, g)
  \/ \E e \in CallParties : OnCallRequest(e)
  \/ \E e \in CallParties : OnCallAccept(e)
  \/ \E e \in CallParties : OnWebrtcOffer(e)
  \/ \E e \in CallParties : OnWebrtcAnswer(e)
  \/ \E e \in CallParties : OnWebrtcIce(e)
  \/ \E c \in CallParties : Forward(c)

OneCallSpec == CallInit /\ [][OneCallNext]_vars

\* One call, begun with one click on Talk and answered with one click on
\* Accept, in which each connection gathers MaxCandidates candidates and an
\* addIceCandidate may fail.
IceNext ==
  \/ \E e \in CallParties, t \in CallParties : FirstTalk(e, t)
  \/ \E e \in CallParties : nActs = 1 /\ Accept(e)
  \/ \E e \in CallParties, i \in TaskSlots : UserMediaGranted(e, i)
  \/ \E e \in CallParties, i \in TaskSlots : PcOperationDone(e, i)
  \/ \E e \in CallParties, i \in TaskSlots : CandidateRejected(e, i)
  \/ \E e \in CallParties, g \in PcSlots : IceCandidates(e, g)
  \/ \E e \in CallParties : OnCallRequest(e)
  \/ \E e \in CallParties : OnCallAccept(e)
  \/ \E e \in CallParties : OnWebrtcOffer(e)
  \/ \E e \in CallParties : OnWebrtcAnswer(e)
  \/ \E e \in CallParties : OnWebrtcIce(e)
  \/ \E c \in CallParties : Forward(c)

IceSpec == CallInit /\ [][IceNext]_vars

\* The client after its user has twice clicked Talk and then Cancel while the
\* microphone prompt was open: idle, two initiateCall suspended at getUserMedia.
TwiceCancelled(E, targetId) ==
  LET once(E0) == handleHangUp(handleTalkClicked(E0, targetId).E).E
  IN once(once(E))

\* The call parties in CallRoom after c1's user has twice started and
\* cancelled a call to c2, and c2 has handled the requests and the call:end.
RetryInit ==
  /\ status = [c \in Conns |-> IF c \in CallParties THEN "connected" ELSE "fresh"]
  /\ currentRoomId = [c \in Conns |-> IF c \in CallParties THEN CallRoom ELSE NULL]
  /\ rooms = joinedStore(joinedStore([r \in {} |-> <<>>], "c1"), "c2")
  /\ sids = [c \in Conns |-> IF c \in CallParties THEN {CallRoom} ELSE {}]
  /\ emitted = <<>>
  /\ lastEvent = [kind |-> "init"]
  /\ joinedNotices = (<<"c1", "c2", CallRoom>> :> 1)
  /\ nEvents = 0
  /\ ep = [c \in Conns |->
             IF c = "c1" THEN TwiceCancelled([NewEndpoint EXCEPT !.up = TRUE], "c2")
             ELSE [NewEndpoint EXCEPT !.up = (c \in CallParties)]]
  /\ out = [c \in Conns |-> <<>>]
  /\ inbox = [c \in Conns |-> <<>>]
  /\ nActs = 0

\* c1's user goes on clicking Talk and Cancel while the getUserMedia calls
\* settle; c2's user does nothing.
RetryNext ==
  \/ Talk("c1", "c2")
  \/ HangUp("c1")
  \/ \E i \in TaskSlots : UserMediaGranted("c1", i)
  \/ \E i \in TaskSlots : UserMediaDenied("c1", i)
  \/ \E i \in TaskSlots : PcOperationDone("c1", i)
  \/ \E g \in PcSlots : IceCandidate("c1", g)
  \/ Forward("c1")
  \/ OnCallRequest("c2")
  \/ OnCallEnd("c2")
  \/ OnWebrtcOffer("c2")
  \/ OnWebrtcIce("c2")

RetrySpec == RetryInit /\ [][RetryNext]_vars

\* The three clients of the scenarios with a third party.
TrioParties == {"c1", "c2", "c3"}

\* ---------------------------------------------------------------------
\*  WorldScene (client): the remote players
\* ---------------------------------------------------------------------
\* spawnOtherPlayer(player): nothing if the id has a sprite already
spawnOtherPlayer(E, player) ==
  IF player.id \in DOMAIN E.others
  THEN E
  ELSE [E EXCEPT !.others = [i \in (DOMAIN E.others) \cup {player.id} |->
                               IF i = player.id THEN <<player.x, player.y>>
                               ELSE E.others[i]]]

\* destroyOtherPlayer(playerId)
destroyOtherPlayer(E, playerId) ==
  [E EXCEPT !.others = [i \in (DOMAIN E.others) \ {playerId} |-> E.others[i]]]

\* onRoomState: players.forEach(p => this.spawnOtherPlayer(p))
RECURSIVE onRoomState(_, _)
onRoomState(E, players) ==
  IF players = <<>>
  THEN E
  ELSE onRoomState(spawnOtherPlayer(E, Head(players)), Tail(players))

\* onPlayerMoved: the sprite, if there is one, is sent to (data.x, data.y)
onPlayerMoved(E, data) ==
  IF data.id \in DOMAIN E.others
  THEN [E EXCEPT !.others[data.id] = <<data.x, data.y>>]
  ELSE E

\* The scene's listener for message m; self:player places the own avatar.
onPresence(E, m) ==
  CASE m.event = ROOM_STATE    -> onRoomState(E, m.payload)
    [] m.event = PLAYER_JOINED -> spawnOtherPlayer(E, m.payload)
    [] m.event = PLAYER_MOVED  -> onPlayerMoved(E, m.payload)
    [] m.event = PLAYER_LEFT   -> destroyOtherPlayer(E, m.payload)
    [] OTHER                   -> E

\* The ids message m tells its receiver of.
noted(E, m) ==
  CASE m.event = ROOM_STATE    -> [E EXCEPT !.heard = @ \cup ids(m.payload)]
    [] m.event = PLAYER_JOINED -> [E EXCEPT !.heard = @ \cup {m.payload.id}]
    [] m.event = PLAYER_LEFT   -> [E EXCEPT !.gone = @ \cup {m.payload}]
    [] OTHER                   -> E

\* The scene handles the event at the head of its socket's inbox.
OnPresence(e) ==
  /\ \E event \in {ROOM_STATE, SELF_PLAYER, PLAYER_JOINED, PLAYER_MOVED, PLAYER_LEFT} :
       Receives(e, event)
  /\ Ran(e, Res(noted(onPresence(ep[e], Head(inbox[e])), Head(inbox[e])), <<>>), TRUE)

\* create(): socket.emit(EVENTS.JOIN_ROOM, this.roomId), once per scene and
\* so once per socket, or again for the same room (hot reload, double emit);
\* the relay handles it and writes its emissions to the sockets.
ServerJoin(c, roomId) ==
  /\ ep[c].up
  /\ currentRoomId[c] \in {NULL, roomId}
  /\ joinRoom(c, roomId, 0, 0)
  /\ inbox' = delivered(inbox, emitted')
  /\ UNCHANGED <<ep, out, nActs>>

\* update(): socket.emit(EVENTS.PLAYER_MOVE, {x, y}), which follows the
\* scene's join:room on the socket; handled by the relay
ServerMove(c, payload) ==
  /\ ep[c].up
  /\ currentRoomId[c] # NULL
  /\ playerMove(c, payload)
  /\ inbox' = delivered(inbox, emitted')
  /\ UNCHANGED <<ep, out, nActs>>

\* Every socket of the pool is connected, no scene has joined yet.
SceneInit ==
  /\ status = [c \in Conns |-> "connected"]
  /\ currentRoomId = [c \in Conns |-> NULL]
  /\ rooms = [r \in {} |-> <<>>]
  /\ sids = [c \in Conns |-> {}]
  /\ emitted = <<>>
  /\ lastEvent = [kind |-> "init"]
  /\ joinedNotices = [k \in {} |-> 0]
  /\ nEvents = 0
  /\ ep = [c \in Conns |-> [NewEndpoint EXCEPT !.up = TRUE]]
  /\ out = [c \in Conns |-> <<>>]
  /\ inbox = [c \in Conns |-> <<>>]
  /\ nActs = 0

\* The scenes join, move, leave; the client whose socket id is one of the
\* room names stays.
SceneNext ==
  \/ \E c \in TrioParties, roomId \in AnyRoomIds : ServerJoin(c, roomId)
  \/ \E c \in TrioParties : ServerMove(c, [x |-> 10, y |-> 20])
  \/ \E c \in TrioParties \ {ConnIds[1]} : Leave(c)
  \/ \E c \in TrioParties : ServerDisconnect(c)
  \/ \E c \in TrioParties : OnPresence(c)

SceneSpec == SceneInit /\ [][SceneNext]_vars

\* ---------------------------------------------------------------------
\*  Three clients in a room
\* ---------------------------------------------------------------------
\* The two that click Talk on the third.
Callers == {"c1", "c3"}

\* The state after the three have connected and joined CallRoom.
TrioInit ==
  /\ status = [c \in Conns |-> IF c \in TrioParties THEN "connected" ELSE "fresh"]
  /\ currentRoomId = [c \in Conns |-> IF c \in TrioParties THEN CallRoom ELSE NULL]
  /\ rooms = joinedStore(joinedStore(joinedStore([r \in {} |-> <<>>], "c1"), "c2"), "c3")
  /\ sids = [c \in Conns |-> IF c \in TrioParties THEN {CallRoom} ELSE {}]
  /\ emitted = <<>>
  /\ lastEvent = [kind |-> "init"]
  /\ joinedNotices = [k \in {<<"c1", "c2", CallRoom>>, <<"c1", "c3", CallRoom>>,
                              <<"c2", "c3", CallRoom>>} |-> 1]
  /\ nEvents = 0
  /\ ep = [c \in Conns |-> [NewEndpoint EXCEPT !.up = (c \in TrioParties)]]
  /\ out = [c \in Conns |-> <<>>]
  /\ inbox = [c \in Conns |-> <<>>]
  /\ nActs = 0

\* Both callers call c2, which answers neither: the first request makes it
\* ring, the second is rejected.
TrioNext ==
  \/ \E e \in Callers : Talk(e, "c2")
  \/ \E e \in Callers, i \in TaskSlots : UserMediaGranted(e, i)
  \/ \E e \in Callers, i \in TaskSlots : PcOperationDone(e, i)
  \/ \E e \in Callers, g \in PcSlots : IceCandidate(e, g)
  \/ \E e \in Callers : OnCallDecline(e)
  \/ OnCallRequest("c2")
  \/ OnWebrtcOffer("c2")
  \/ OnWebrtcIce("c2")
  \/ OnCallEnd("c2")
  \/ \E c \in TrioParties : Forward(c)

TrioSpec == TrioInit /\ [][TrioNext]_vars

\* The state after both callers have clicked Talk on c2.
RingInit ==
  /\ status = [c \in Conns |-> IF c \in TrioParties THEN "connected" ELSE "fresh"]
  /\ currentRoomId = [c \in Conns |-> IF c \in TrioParties THEN CallRoom ELSE NULL]
  /\ rooms = joinedStore(joinedStore(joinedStore([r \in {} |-> <<>>], "c1"), "c2"), "c3")
  /\ sids = [c \in Conns |-> IF c \in TrioParties THEN {CallRoom} ELSE {}]
  /\ emitted = <<>>
  /\ lastEvent = [kind |-> "init"]
  /\ joinedNotices = [k \in {<<"c1", "c2", CallRoom>>, <<"c1", "c3", CallRoom>>,
                              <<"c2", "c3", CallRoom>>} |-> 1]
  /\ nEvents = 0
  /\ ep = [c \in Conns |->
             IF c \in Callers
             THEN handleTalkClicked([NewEndpoint EXCEPT !.up = TRUE], "c2").E
             ELSE [NewEndpoint EXCEPT !.up = (c \in TrioParties)]]
  /\ out = [c \in Conns |->
              IF c \in Callers
              THEN handleTalkClicked([NewEndpoint EXCEPT !.up = TRUE], "c2").emits
              ELSE <<>>]
  /\ inbox = [c \in Conns |-> <<>>]
  /\ nActs = 0

\* The calls go on and the user of c2 may click Accept.
RingNext ==
  \/ Accept("c2")
  \/ \E e \in TrioParties, i \in TaskSlots : UserMediaGranted(e, i)
  \/ \E e \in TrioParties, i \in TaskSlots : PcOperationDone(e, i)
  \/ \E e \in Callers : OnCallDecline(e)
  \/ \E e \in Callers : OnCallAccept(e)
  \/ \E e \in Callers : OnWebrtcAnswer(e)
  \/ OnCallRequest("c2")
  \/ OnWebrtcOffer("c2")
  \/ OnCallEnd("c2")
  \/ \E c \in TrioParties : Forward(c)

RingSpec == RingInit /\ [][RingNext]_vars

\* ---------------------------------------------------------------------
\*  A call that is ended
\* ---------------------------------------------------------------------
\* The state after c1 and c2 have joined CallRoom and the user of c1 has
\* clicked Talk on c2.
EndInit ==
  /\ status = [c \in Conns |-> IF c \in CallParties THEN "connected" ELSE "fresh"]
  /\ currentRoomId = [c \in Conns |-> IF c \in CallParties THEN CallRoom ELSE NULL]
  /\ rooms = joinedStore(joinedStore([r \in {} |-> <<>>], "c1"), "c2")
  /\ sids = [c \in Conns |-> IF c \in CallParties THEN {CallRoom} ELSE {}]
  /\ emitted = <<>>
  /\ lastEvent = [kind |-> "init"]
  /\ joinedNotices = (<<"c1", "c2", CallRoom>> :> 1)
  /\ nEvents = 0
  /\ ep = [c \in Conns |->
             IF c = "c1"
             THEN handleTalkClicked([NewEndpoint EXCEPT !.up = TRUE], "c2").E
             ELSE [NewEndpoint EXCEPT !.up = (c \in CallParties)]]
  /\ out = [c \in Conns |->
              IF c = "c1"
              THEN handleTalkClicked([NewEndpoint EXCEPT !.up = TRUE], "c2").emits
              ELSE <<>>]
  /\ inbox = [c \in Conns |-> <<>>]
  /\ nActs = 0

\* What goes on without a user: the relay forwards, the browsers resolve what
\* is awaited and the clients handle what they receive.
EndSteps ==
  \/ \E e \in CallParties, i \in TaskSlots : UserMediaGranted(e, i)
  \/ \E e \in CallParties, i \in TaskSlots : PcOperationDone(e, i)
  \/ \E e \in CallParties : OnCallRequest(e)
  \/ \E e \in CallParties : OnCallAccept(e)
  \/ \E e \in CallParties : OnCallDecline(e)
  \/ \E e \in CallParties : OnCallEnd(e)
  \/ \E e \in CallParties : OnWebrtcOffer(e)
  \/ \E e \in CallParties : OnWebrtcAnswer(e)
  \/ \E c \in CallParties : Forward(c)

\* The users accept, decline, cancel or hang up; both stay connected and no
\* one clicks Talk again.
EndNext ==
  \/ \E e \in CallParties : Accept(e)
  \/ \E e \in CallParties : Decline(e)
  \/ \E e \in CallParties : HangUp(e)
  \/ \E e \in CallParties, i \in TaskSlots : UserMediaGranted(e, i)
  \/ \E e \in CallParties, i \in TaskSlots : PcOperationDone(e, i)
  \/ \E e \in CallParties : OnCallRequest(e)
  \/ \E e \in CallParties : OnCallAccept(e)
  \/ \E e \in CallParties : OnCallDecline(e)
  \/ \E e \in CallParties : OnCallEnd(e)
  \/ \E e \in CallParties : OnWebrtcOffer(e)
  \/ \E e \in CallParties : OnWebrtcAnswer(e)
  \/ \E c \in CallParties : Forward(c)

\* Socket.IO delivers what is emitted on a connected socket, the event loop
\* runs every listener and continuation that is ready, and getUserMedia and
\* the peer connection's operations settle.
EndSpec == EndInit /\ [][EndNext]_vars /\ WF_vars(EndSteps)

\* ---------------------------------------------------------------------
\*  A crowded room
\* ---------------------------------------------------------------------
\* The most records left in "plaza" by sockets that are gone.
MaxCrowd == 9

CrowdIds == <<"p1", "p2", "p3", "p4", "p5", "p6", "p7", "p8", "p9", "p10">>

\* The store after k sockets have joined "plaza" one after the other, then
\* a room of another name that they emptied again, and have disconnected:
\* the disconnect handler cleans the room joined last, the k records stay.
RECURSIVE crowdStore(_)
crowdStore(k) ==
  IF k = 0 THEN [r \in {} |-> <<>>] ELSE joinedStore(crowdStore(k - 1), CrowdIds[k])

PaletteInit ==
  /\ status = [c \in Conns |-> "fresh"]
  /\ currentRoomId = [c \in Conns |-> NULL]
  /\ \E k \in 0..MaxCrowd : rooms = crowdStore(k)
  /\ sids = [c \in Conns |-> {}]
  /\ emitted = <<>>
  /\ lastEvent = [kind |-> "init"]
  /\ joinedNotices = [k \in {} |-> 0]
  /\ nEvents = 0
  /\ ep = [c \in Conns |-> NewEndpoint]
  /\ out = [c \in Conns |-> <<>>]
  /\ inbox = [c \in Conns |-> <<>>]
  /\ nActs = 0

PaletteNext ==
  \/ \E c \in Conns : Connect(c)
  \/ \E c \in Conns, roomId \in RoomIds : JoinRoom(c, roomId, 0, 0)
  \/ \E c \in Conns : Disconnect(c)

PaletteSpec == PaletteInit /\ [][PaletteNext]_vars

\* ---------------------------------------------------------------------
\*  Observations used by the properties
\* ---------------------------------------------------------------------
Connected == {c \in Conns : status[c] = "connected"}

\* The ids recorded in room r of the store (none when r is not in the store).
Members(r) == IF storeHas(rooms, r) THEN ids(rooms[r]) ELSE {}

\* The connections that are connected, have joined r and have not left it.
LiveJoiners(r) == {c \in Connected : r \in sids[c]}

\* The step just taken was the handler `kind` run for connection c.
Handled(kind, c) ==
  /\ nEvents' = nEvents + 1
  /\ lastEvent'.kind = kind
  /\ lastEvent'.id = c

\* The emissions of event `ev` in `ems` that reach connection c.
Received(ems, ev, c) == {i \in 1..Len(ems) : ems[i].event = ev /\ c \in ems[i].to}

\* ---------------------------------------------------------------------
\*  Properties
\* ---------------------------------------------------------------------

\* C1: the member set of every room equals the set of connections that are
\* connected, have joined the room and have not left it or disconnected.
C1_MembersAreLiveJoiners ==
  \A r \in RoomIds : Members(r) = LiveJoiners(r)

\* C2: the store never holds a room with zero participants; a room appears
\* only through a join that adds the joiner to it, and disappears only
\* through the disconnect that removes its last member.
C2_NoEmptyRoom ==
  /\ [](\A r \in DOMAIN rooms : Len(rooms[r]) > 0)
  /\ [][\A r \in RoomIds :
         /\ (~storeHas(rooms, r) /\ storeHas(rooms', r))
              => /\ lastEvent'.kind = "join"
                 /\ lastEvent'.roomId = r
                 /\ ids(rooms'[r]) = {lastEvent'.id}
         /\ (storeHas(rooms, r) /\ ~storeHas(rooms', r))
              => /\ lastEvent'.kind = "disconnect"
                 /\ lastEvent'.roomId = r
                 /\ ids(rooms[r]) = {lastEvent'.id}]_vars

\* A disconnect has just removed the last member of a room, and the room is
\* gone while another room is still kept.
C2_Witness ==
  /\ lastEvent.kind = "disconnect"
  /\ lastEvent.cleaned
  /\ ~storeHas(rooms, lastEvent.roomId)
  /\ DOMAIN rooms # {}

\* C3: each connection identifier is a participant of at most one room.
C3_AtMostOneRoom ==
  \A c \in Conns : Cardinality({r \in DOMAIN rooms : has(rooms[r], c)}) <= 1

\* C4: a join:room for room r by a connection already recorded in r leaves
\* the whole store as it was: the rejoiner keeps its position and color, and
\* no other participant's record changes.
C4_RejoinPreservesRecord ==
  [][\A c \in Conns, r \in RoomIds :
       (Handled("join", c) /\ lastEvent'.roomId = r
          /\ storeHas(rooms, r) /\ has(rooms[r], c))
       => rooms' = rooms]_vars

\* A rejoin has just been processed for a participant whose stored position
\* was set by a move, in a room that holds another participant too.
C4_Witness ==
  /\ lastEvent.kind = "join"
  /\ lastEvent.isRejoin
  /\ lastEvent.player.x = 10
  /\ lastEvent.player.y = 20
  /\ get(rooms[lastEvent.roomId], lastEvent.id) = lastEvent.player
  /\ Len(rooms[lastEvent.roomId]) > 1

C6_JoinerGetsSnapshotThenSelf ==
  lastEvent.kind = "join" =>
    LET c == lastEvent.id
        room == rooms[lastEvent.roomId]
        others == {room[j] : j \in {k \in 1..Len(room) : room[k].id # c}}
    IN /\ Len(emitted) >= 2
       /\ emitted[1].event = ROOM_STATE
       /\ emitted[1].to = {c}
       /\ {emitted[1].payload[i] : i \in 1..Len(emitted[1].payload)} = others
       /\ Len(emitted[1].payload) = Cardinality(others)
       /\ emitted[2].event = SELF_PLAYER
       /\ emitted[2].to = {c}
       /\ emitted[2].payload = get(room, c)
       /\ \A i \in 3..Len(emitted) :
            emitted[i].event \notin {ROOM_STATE, SELF_PLAYER}

\* A join has just produced a room:state with two other participants in it,
\* one of them at a position set by a move.
C6_Witness ==
  /\ lastEvent.kind = "join"
  /\ Len(emitted[1].payload) = 2
  /\ \E i \in 1..2 : emitted[1].payload[i].x = 30

\* C7: on a first join of room r every other connected member of r receives
\* exactly one player:joined, carrying the new participant's stored record
\* with its spawn position and palette color, and the joiner receives none.
C7_FirstJoinNotifiesOthers ==
  [][\A c \in Conns, r \in RoomIds :
       (Handled("join", c) /\ lastEvent'.roomId = r
          /\ ~(storeHas(rooms, r) /\ has(rooms[r], c)))
       => LET p == get(rooms'[r], c)
          IN /\ p.id = c /\ p.roomId = r
             /\ p.x >= 720 /\ p.x < 880
             /\ p.y >= 520 /\ p.y < 680
             /\ \E k \in 1..Len(COLORS) : p.color = COLORS[k]
             /\ \A t \in (ids(rooms'[r]) \cap Connected) \ {c} :
                  /\ Cardinality(Received(emitted', PLAYER_JOINED, t)) = 1
                  /\ \A i \in Received(emitted', PLAYER_JOINED, t) :
                       emitted'[i].payload = p
             /\ Received(emitted', PLAYER_JOINED, c) = {}]_vars

\* A first join has just been announced to two other connected members.
C7_Witness ==
  /\ lastEvent.kind = "join"
  /\ ~lastEvent.isRejoin
  /\ Len(emitted) = 3
  /\ emitted[3].event = PLAYER_JOINED
  /\ Cardinality(emitted[3].to) = 2
  /\ emitted[3].to \subseteq ids(rooms[lastEvent.roomId])

\* C8: after player:move {x, y} from a connection that is a participant of
\* its current room, that participant's stored position is (x, y).
C8_MoveSetsPosition ==
  (lastEvent.kind = "move"
     /\ currentRoomId[lastEvent.id] # NULL
     /\ storeHas(rooms, currentRoomId[lastEvent.id])
     /\ has(rooms[currentRoomId[lastEvent.id]], lastEvent.id))
  => /\ get(rooms[currentRoomId[lastEvent.id]], lastEvent.id).x = lastEvent.payload.x
     /\ get(rooms[currentRoomId[lastEvent.id]], lastEvent.id).y = lastEvent.payload.y

\* C9: for every applied move of a member of room r, every other connected
\* member of r receives exactly one player:moved {id, x, y} with the mover's
\* id and the new coordinates; no connection is ever sent a player:moved
\* that carries its own id.
C9_MoveNotifiesOthers ==
  /\ \A i \in 1..Len(emitted) :
       emitted[i].event = PLAYER_MOVED => emitted[i].payload.id \notin emitted[i].to
  /\ (lastEvent.kind = "move" /\ lastEvent.applied) =>
       \A t \in (ids(rooms[lastEvent.roomId]) \cap Connected) \ {lastEvent.id} :
         /\ Cardinality(Received(emitted, PLAYER_MOVED, t)) = 1
         /\ \A i \in Received(emitted, PLAYER_MOVED, t) :
              emitted[i].payload = [id |-> lastEvent.id,
                                    x  |-> lastEvent.payload.x,
                                    y  |-> lastEvent.payload.y]

\* An applied move has just been sent to two other connected members.
C9_Witness ==
  /\ lastEvent.kind = "move"
  /\ lastEvent.applied
  /\ Len(emitted) = 1
  /\ Cardinality(emitted[1].to) = 2
  /\ emitted[1].to \subseteq ids(rooms[lastEvent.roomId])

\* C10: a player:move from a connection that has joined no room, or whose
\* room or participant record does not exist, changes nothing in the store
\* and emits nothing.
C10_StaleMoveIsNoOp ==
  [][\A c \in Conns :
       (Handled("move", c)
          /\ (\/ currentRoomId[c] = NULL
              \/ ~storeHas(rooms, currentRoomId[c])
              \/ ~has(rooms[currentRoomId[c]], c)))
       => /\ rooms' = rooms
          /\ emitted' = << >>
          /\ UNCHANGED <<status, currentRoomId, sids>>]_vars

\* A move from a connection that has joined no room has just been dropped
\* while the store holds a participant.
C10_Witness ==
  /\ lastEvent.kind = "move"
  /\ ~lastEvent.applied
  /\ currentRoomId[lastEvent.id] = NULL
  /\ DOMAIN rooms # {}

\* C11: when a member of room r disconnects, its record is no longer in r
\* and every remaining connected member of r receives exactly one
\* player:left carrying the departed connection's id.
C11_DisconnectNotifiesRemaining ==
  [][\A c \in Conns, r \in RoomIds :
       (Handled("disconnect", c) /\ storeHas(rooms, r) /\ has(rooms[r], c))
       => /\ ~(storeHas(rooms', r) /\ has(rooms'[r], c))
          /\ \A t \in (ids(rooms[r]) \ {c}) :
               status'[t] = "connected" =>
                 /\ Cardinality(Received(emitted', PLAYER_LEFT, t)) = 1
                 /\ \A i \in Received(emitted', PLAYER_LEFT, t) :
                      emitted'[i].payload = c]_vars

\* C12: once a connection has disconnected, no room of the store holds a
\* participant with its id.
C12_NoRecordAfterDisconnect ==
  \A c \in Conns :
    status[c] = "disconnected" => \A r \in DOMAIN rooms : ~has(rooms[r], c)

\* ---------------------------------------------------------------------
\*  Observations of the clients
\* ---------------------------------------------------------------------
\* The events e's step has put on its socket.
Sent(e) == SubSeq(out'[e], Len(out[e]) + 1, Len(out'[e]))

\* Endpoint e has an async function suspended in flushIceBuffer or in an
\* addIceCandidate.
AddingCandidates(e) ==
  \E i \in DOMAIN ep[e].tasks : ep[e].tasks[i].at \in {"A.flush", "N.flush", "ice.add"}

FromPc(s, d) == s.candidate.of = d.of /\ s.candidate.gen = d.gen

IsEarly(s, d) == s.early /\ FromPc(s, d)

\* The candidates of the connection that made description d which e received
\* before it had set a remote description, in arrival order.
EarlyCandidates(e, d) ==
  LET sel == SelectSeq(ep[e].iceSeen, LAMBDA s : IsEarly(s, d))
  IN [i \in 1..Len(sel) |-> sel[i].candidate]

AmongEarly(c, e, d) == \E i \in DOMAIN EarlyCandidates(e, d) : EarlyCandidates(e, d)[i] = c

\* Nothing is in flight and nothing is pending: only a user can make a step.
Settled ==
  \A e \in CallParties :
    /\ out[e] = <<>>
    /\ inbox[e] = <<>>
    /\ ep[e].tasks = <<>>
    /\ ep[e].up \/ status[e] = "disconnected"
    /\ ep[e].pc # 0 =>
         (ep[e].pcs[ep[e].pc].local.type = "none"
            /\ ep[e].pcs[ep[e].pc].remote.type = "none")

\* C13: once an endpoint has set the remote description and is not adding
\* candidates any more, the candidates of that call which arrived before the
\* description was set have all been applied to its peer connection, once
\* each and in arrival order.
C13_EarlyCandidatesApplied ==
  \A e \in CallParties :
    LET E == ep[e]
    IN (E.pc # 0 /\ E.remoteDescSet /\ ~AddingCandidates(e)
          /\ E.pcs[E.pc].remote.type # "none")
       => SelectSeq(E.pcs[E.pc].applied,
                    LAMBDA c : AmongEarly(c, e, E.pcs[E.pc].remote))
            = EarlyCandidates(e, E.pcs[E.pc].remote)

\* C14: the only states an endpoint enters directly from idle are calling
\* and receiving.
C14_FromIdleOnlyCallingOrReceiving ==
  [][\A e \in CallParties :
       (ep[e].state = "idle" /\ ep'[e].state # "idle")
         => ep'[e].state \in {"calling", "receiving"}]_vars

\* C15: when a party of a call has lost its socket and everything that was
\* in flight or pending has run, both parties of that call are idle.
C15_DisconnectEndsCallForBoth ==
  \A a \in CallParties : \A b \in ep[a].lostWith :
    (Settled /\ status[a] = "disconnected")
      => (ep[a].state = "idle" /\ ep[b].state = "idle")

\* C16: a call request that arrives at an idle endpoint puts it into
\* receiving with the requester as peer; one that arrives at a busy endpoint
\* is answered with call:decline to the requester and leaves the endpoint's
\* state and peer as they were.
C16_RequestReceivedOrDeclined ==
  [][\A e \in CallParties :
       OnCallRequest(e) =>
         IF ep[e].state = "idle"
         THEN /\ ep'[e].state = "receiving"
              /\ ep'[e].peerId = Head(inbox[e]).payload.from
              /\ Sent(e) = <<>>
         ELSE /\ Sent(e) = << Msg(CALL_DECLINE, [to |-> Head(inbox[e]).payload.from]) >>
              /\ ep'[e].state = ep[e].state
              /\ ep'[e].peerId = ep[e].peerId]_vars

\* An endpoint that is calling has auto-rejected a request of the endpoint it
\* is calling: the decline is the last thing it has sent.
C16_Witness ==
  \E e \in CallParties :
    /\ ep[e].state = "calling"
    /\ out[e] # <<>>
    /\ out[e][Len(out[e])].event = CALL_DECLINE
    /\ out[e][Len(out[e])].payload.to = ep[e].peerId

\* A step of e's own that ends a call: the user ends, cancels, declines or
\* leaves, audio acquisition fails, or the peer connection fails.
EndsLocally(e) ==
  \/ HangUp(e)
  \/ Decline(e)
  \/ Leave(e)
  \/ \E i \in TaskSlots : UserMediaDenied(e, i)
  \/ PeerConnectionLost(e)

IsTerminal(m, peer) == m.event \in {CALL_END, CALL_DECLINE} /\ m.payload.to = peer

\* C17: when an endpoint with a known peer goes from a non-idle state to idle
\* by a step of its own, it sends call:end or call:decline to that peer.
C17_LocalEndNotifiesPeer ==
  [][\A e \in CallParties :
       (EndsLocally(e) /\ ep[e].state # "idle" /\ ep[e].peerId # NULL
          /\ ep'[e].state = "idle")
         => \E i \in DOMAIN Sent(e) : IsTerminal(Sent(e)[i], ep[e].peerId)]_vars

\* C18: an idle endpoint holds no audio stream and no peer connection, has
\* no peer and an empty candidate buffer.
C18_IdleHoldsNothing ==
  \A e \in CallParties :
    ep[e].state = "idle"
      => /\ ~ep[e].localStream
         /\ ep[e].pc = 0
         /\ ep[e].peerId = NULL
         /\ ep[e].iceBuffer = <<>>

\* C19: every signalling message the relay delivers carries a `from` equal
\* to the id of the connection that sent it to the relay, whatever payload
\* the sender supplied.
C19_SenderTagIsSender ==
  [][\A c \in Conns :
       Handled("relay", c) =>
         \A i \in 1..Len(emitted') :
           emitted'[i].to # {} => emitted'[i].payload.from = c]_vars

\* C20: relaying an event whose target id is not the id of a connected
\* socket delivers it to no one, leaves the room store as it was and sends
\* nothing to the sender.
C20_DeadTargetDropsMessage ==
  [][\A c \in Conns :
       (Handled("relay", c) /\ lastEvent'.payload.to \notin Connected) =>
         /\ \A i \in 1..Len(emitted') : emitted'[i].to = {}
         /\ rooms' = rooms]_vars

\* C21: a signalling event addressed to another live connection is delivered
\* to it, once, whatever rooms the sender and the target have joined: the
\* same room, different rooms or none.
C21_DeliveredWhateverRooms ==
  [][\A c \in Conns :
       (Handled("relay", c) /\ lastEvent'.payload.to \in Connected \ {c}) =>
         /\ Cardinality(Received(emitted', lastEvent'.event, lastEvent'.payload.to)) = 1
         /\ \A i \in Received(emitted', lastEvent'.event, lastEvent'.payload.to) :
              /\ emitted'[i].payload.to = lastEvent'.payload.to
              /\ emitted'[i].payload.from = c]_vars

\* A signalling event has just been delivered from a connection that has
\* joined "plaza" only to a connection that has joined no room, while a third
\* connection shares the sender's room.
C21_Witness ==
  /\ lastEvent.kind = "relay"
  /\ sids[lastEvent.id] = {"plaza"}
  /\ sids[lastEvent.payload.to] = {}
  /\ lastEvent.payload.to \in emitted[1].to
  /\ \E o \in Connected \ {lastEvent.id, lastEvent.payload.to} : "plaza" \in sids[o]

\* C22: when getUserMedia fails in initiateCall or acceptCall, the endpoint
\* becomes idle, holds no stream, peer connection, peer or buffered candidate,
\* none of its peer connections is left open, the onError callback is invoked
\* exactly once, with the microphone message, and nothing reaches the relay.
C22_AudioFailureReleasesAll ==
  [][\A e \in CallParties :
       (\E i \in TaskSlots : UserMediaDenied(e, i)) =>
         /\ ep'[e].state = "idle"
         /\ ep'[e].pc = 0 /\ ~ep'[e].localStream /\ ~ep'[e].remoteAudio
         /\ ep'[e].peerId = NULL /\ ep'[e].iceBuffer = <<>>
         /\ \A g \in DOMAIN ep'[e].pcs : ep'[e].pcs[g].closed
         /\ ep'[e].errors = << MicMessage >>
         /\ Sent(e) = <<>>
         /\ UNCHANGED relayVars]_vars

\* C23: a rejected addIceCandidate on the endpoint's connection, in the
\* webrtc:ice handler or while flushIceBuffer drains the buffer, leaves the
\* call state, the peer and the
\* peer connection as they were, reports no error and sends nothing; the
\* candidates still in the buffer go on to be applied (and acceptCall goes on
\* to its answer), the other pending operations stay, and every
\* addIceCandidate that settles applies its candidate.
C23_FailedCandidateIgnored ==
  [][\A e \in CallParties, i \in TaskSlots :
       /\ (CandidateRejected(e, i) /\ ep[e].tasks[i].gen = ep[e].pc) =>
            LET t == ep[e].tasks[i]
            IN /\ ep'[e].state = ep[e].state
               /\ ep'[e].peerId = ep[e].peerId
               /\ ep'[e].pc = ep[e].pc
               /\ ep'[e].remoteDescSet = ep[e].remoteDescSet
               /\ ~ep'[e].pcs[t.gen].closed
               /\ ep'[e].pcs[t.gen].applied = ep[e].pcs[t.gen].applied
               /\ ep'[e].errors = <<>>
               /\ Sent(e) = <<>>
               /\ (t.at # "ice.add" /\ Len(t.rest) > 1) =>
                    \E j \in DOMAIN ep'[e].tasks :
                      ep'[e].tasks[j] = Task(t.at, t.peer, NoSdp, t.gen, Tail(t.rest))
               /\ (t.at = "A.flush" /\ Len(t.rest) = 1) =>
                    \E j \in DOMAIN ep'[e].tasks : ep'[e].tasks[j].at = "A.answer"
               /\ \A j \in DOMAIN ep[e].tasks \ {i} :
                    \E k \in DOMAIN ep'[e].tasks : ep'[e].tasks[k] = ep[e].tasks[j]
       /\ (PcOperationDone(e, i) /\ ep[e].tasks[i].at \in {"A.flush", "N.flush", "ice.add"}) =>
            ep'[e].pcs[ep[e].tasks[i].gen].applied
              = Append(ep[e].pcs[ep[e].tasks[i].gen].applied, Head(ep[e].tasks[i].rest))]_vars

\* A caller is connected with nothing pending: of the two candidates it
\* received, the first, taken from the buffer, was rejected and the second
\* has been applied all the same.
C23_Witness ==
  \E e \in CallParties :
    /\ ep[e].state = "connected"
    /\ ep[e].tasks = <<>>
    /\ ep[e].pc # 0
    /\ ep[e].pcs[ep[e].pc].local.type = "offer"
    /\ Len(ep[e].iceSeen) = 2
    /\ ep[e].iceSeen[1].early
    /\ ep[e].pcs[ep[e].pc].applied = << ep[e].iceSeen[2].candidate >>

\* C26: in the call where a calls idle b and b accepts, a candidate of b
\* that reaches a before a has set b's answer is buffered by a and applied
\* once the answer is set; when the exchange is over both endpoints are
\* connected, a's remote description is b's answer, b's is a's offer, and a
\* has applied every candidate b gathered.
C26_EarlyAnswerCandidateApplied ==
  \A a \in CallParties : \A b \in CallParties \ {a} :
    LET A == ep[a]
        B == ep[b]
        Over == /\ nActs = 2
                /\ \A e \in CallParties :
                     /\ out[e] = <<>> /\ inbox[e] = <<>> /\ ep[e].tasks = <<>>
                     /\ ep[e].pc # 0
                     /\ ep[e].pcs[ep[e].pc].gathered = Cardinality(CandidateNumbers)
    IN (A.pc # 0 /\ A.pcs[A.pc].local.type = "offer") =>
         /\ \A k \in DOMAIN A.iceSeen :
              A.iceSeen[k].early =>
                IF ~A.remoteDescSet
                THEN \E j \in DOMAIN A.iceBuffer : A.iceBuffer[j] = A.iceSeen[k].candidate
                ELSE \/ AddingCandidates(a)
                     \/ \E j \in DOMAIN A.pcs[A.pc].applied :
                          A.pcs[A.pc].applied[j] = A.iceSeen[k].candidate
         /\ Over =>
              /\ A.state = "connected" /\ B.state = "connected"
              /\ A.pcs[A.pc].remote = Sdp("answer", b, B.pc)
              /\ B.pcs[B.pc].remote = Sdp("offer", a, A.pc)
              /\ \A n \in CandidateNumbers :
                   \E j \in DOMAIN A.pcs[A.pc].applied :
                     A.pcs[A.pc].applied[j] = Candidate(b, B.pc, n)

\* The exchange is over, both endpoints are connected, and the caller has
\* applied a candidate of the callee that it had received before it set the
\* answer.
C26_Witness ==
  \E a \in CallParties : \E b \in CallParties \ {a} :
    /\ ep[a].state = "connected" /\ ep[b].state = "connected"
    /\ \A e \in CallParties : out[e] = <<>> /\ inbox[e] = <<>> /\ ep[e].tasks = <<>>
    /\ ep[a].pcs[ep[a].pc].local.type = "offer"
    /\ ep[a].iceSeen = << [candidate |-> Candidate(b, ep[b].pc, 1), early |-> TRUE] >>
    /\ ep[a].pcs[ep[a].pc].applied = << Candidate(b, ep[b].pc, 1) >>

\* C24: no event received from a client, whatever its payload (an absent
\* payload and a payload without a target included), makes a handler of the
\* relay raise an unhandled error or terminates the relay: no step ends in
\* an uncaught exception, and the step taken for one connection's event
\* leaves every other connection connected.
C24_NoEventTerminatesRelay ==
  /\ [](lastEvent.kind # "uncaught")
  /\ [][\A c \in Conns :
          (nEvents' = nEvents + 1 /\ lastEvent'.id = c) =>
            \A o \in Conns \ {c} : status'[o] = status[o]]_vars

\* C27: a join, move or disconnect processed for room R never changes the
\* member map of any other room, and every notification it produces goes
\* only to connections that are members of R (before or after the step).
C27_RoomsIndependent ==
  [][\A c \in Conns :
       (Handled("join", c) \/ Handled("move", c) \/ Handled("disconnect", c)) =>
         LET R == lastEvent'.roomId
             After == IF storeHas(rooms', R) THEN ids(rooms'[R]) ELSE {}
         IN /\ \A r \in (DOMAIN rooms \cup DOMAIN rooms') \ {R} :
                  /\ storeHas(rooms, r) /\ storeHas(rooms', r)
                  /\ rooms'[r] = rooms[r]
            /\ \A i \in DOMAIN emitted' :
                  emitted'[i].to \subseteq (Members(R) \cup After)]_vars

C25_PlazaRun ==
  [][\A a \in Conns : \A b \in Conns \ {a} :
       /\ (nEvents = 0 /\ Handled("join", a)) =>
            \E i \in DOMAIN emitted' : emitted'[i] = Emit(ROOM_STATE, {a}, << >>)
       /\ (nEvents = 1 /\ Members("plaza") = {a} /\ Handled("join", b)) =>
            /\ \E i \in DOMAIN emitted' :
                  /\ emitted'[i] = Emit(ROOM_STATE, {b}, rooms["plaza"])
                  /\ Len(emitted'[i].payload) = 1
                  /\ emitted'[i].payload[1].id = a
            /\ \E i \in DOMAIN emitted' :
                  /\ emitted'[i].event = PLAYER_JOINED
                  /\ emitted'[i].to = {a}
                  /\ emitted'[i].payload.id = b
       /\ (nEvents = 2 /\ Members("plaza") = {a, b} /\ Handled("move", b)) =>
            /\ \E i \in DOMAIN emitted' :
                  emitted'[i] = Emit(PLAYER_MOVED, {a}, [id |-> b, x |-> 10, y |-> 20])
            /\ \A i \in DOMAIN emitted' : b \notin emitted'[i].to
       /\ (nEvents = 3 /\ Members("plaza") = {a, b} /\ Handled("disconnect", b)) =>
            /\ \E i \in DOMAIN emitted' : emitted'[i] = Emit(PLAYER_LEFT, {a}, b)
            /\ storeHas(rooms', "plaza")
            /\ ids(rooms'["plaza"]) = {a}]_vars

\* The run is over: the second client has moved and disconnected, the first
\* was told and is alone in "plaza".
C25_Witness ==
  \E a \in Conns : \E b \in Conns \ {a} :
    /\ nEvents = 4
    /\ lastEvent.kind = "disconnect" /\ lastEvent.id = b
    /\ emitted = << Emit(PLAYER_LEFT, {a}, b) >>
    /\ Members("plaza") = {a}
    /\ status[a] = "connected" /\ status[b] = "disconnected"

\* C28: on a first join the new participant's color is the palette entry
\* at index (number of members of the room just before the join) modulo 8,
\* whatever the connection and the room's name; it is the color stored and
\* the color sent to the joiner.
C28_ColorByMemberCount ==
  [][\A c \in Conns :
       (Handled("join", c) /\ ~lastEvent'.isRejoin) =>
         LET R == lastEvent'.roomId
             color == COLORS[(Cardinality(Members(R)) % 8) + 1]
         IN /\ Len(COLORS) = 8
            /\ get(rooms'[R], c).color = color
            /\ \E i \in DOMAIN emitted' :
                  /\ emitted'[i].event = SELF_PLAYER
                  /\ emitted'[i].to = {c}
                  /\ emitted'[i].payload.color = color]_vars

\* A connection has just joined a room of eight as its ninth member and was
\* given the first color of the palette again.
C28_Witness ==
  /\ lastEvent.kind = "join"
  /\ ~lastEvent.isRejoin
  /\ Len(rooms[lastEvent.roomId]) = 9
  /\ lastEvent.id \in Conns
  /\ get(rooms[lastEvent.roomId], lastEvent.id).color = COLORS[1]

\* C30: while endpoint b is in a call with a peer (calling, receiving or
\* connected), the session-offer, the candidates and the call-end that
\* reach it from another endpoint a, whose request b has rejected, change
\* neither b's call state nor b's peer.
C30_RejectedCallLeavesCallAlone ==
  [][\A b \in Conns : \A a \in Conns \ {b} :
       (/\ inbox[b] # <<>>
        /\ inbox'[b] = Tail(inbox[b])
        /\ Head(inbox[b]).event \in {WEBRTC_OFFER, WEBRTC_ICE, CALL_END}
        /\ Head(inbox[b]).payload.from = a
        /\ ep[b].state # "idle"
        /\ ep[b].peerId # a) =>
         /\ ep'[b].state = ep[b].state
         /\ ep'[b].peerId = ep[b].peerId
         /\ ep'[b].callPeerId = ep[b].callPeerId]_vars

\* C31: a call-end or call-decline that reaches an endpoint whose call is
\* already over (it is idle), or that comes from an endpoint that is not its
\* current peer, leaves its call state, its peer and its resources (peer
\* connection, local stream) as they were.
C31_StaleEndIgnored ==
  [][\A b \in Conns :
       (/\ OnCallEnd(b) \/ OnCallDecline(b)
        /\ \/ ep[b].state = "idle"
           \/ Head(inbox[b]).payload.from # ep[b].peerId) =>
         /\ ep'[b].state = ep[b].state
         /\ ep'[b].peerId = ep[b].peerId
         /\ ep'[b].pc = ep[b].pc
         /\ ep'[b].pcs = ep[b].pcs
         /\ ep'[b].localStream = ep[b].localStream]_vars

\* C32: when a receiving endpoint accepts, the offer it consumes is the
\* offer of its current peer, the connection whose call-request made it
\* ring: the offer held was sent by that peer and it is the description
\* acceptCall is given.
C32_AcceptConsumesPeersOffer ==
  [][\A b \in Conns :
       Accept(b) =>
         /\ ep[b].pendingOffer.from = ep[b].peerId
         /\ \E j \in DOMAIN ep'[b].tasks :
               /\ ep'[b].tasks[j].at = "A.gum"
               /\ ep'[b].tasks[j].sdp.of = ep[b].peerId]_vars

\* C33: within one call the candidates an endpoint receives are applied to
\* its peer connection in the order they arrived: of two candidates applied,
\* the one applied first arrived first.
C33_AppliedInArrivalOrder ==
  \A e \in CallParties :
    ep[e].pc # 0 =>
      LET applied == ep[e].pcs[ep[e].pc].applied
          arrival(c) == CHOOSE k \in DOMAIN ep[e].iceSeen : ep[e].iceSeen[k].candidate = c
      IN \A i \in DOMAIN applied : \A j \in DOMAIN applied :
           i < j => arrival(applied[i]) < arrival(applied[j])

\* C34: a signalling event handed to the relay is delivered to at most one
\* connection, the one whose id is the payload's target, whatever the target
\* is (a room id included); never to the sender or to anyone else.
C34_AtMostTheTarget ==
  [][\A c \in Conns :
       Handled("relay", c) =>
         \A i \in DOMAIN emitted' :
           /\ emitted'[i].to \subseteq ({targetOf(lastEvent'.payload)} \cap Conns)
           /\ c \notin emitted'[i].to]_vars

\* C35: the signalling messages one connection sends to the same live
\* target are received in the order they were sent: the call-request before
\* the session-offer that follows it, the offer before the sender's
\* candidates, the answer before the answerer's candidates, and the
\* candidates of one connection in the order they were gathered, none twice.
C35_ReceivedInOrderSent ==
  \A b \in CallParties : \A a \in CallParties \ {b} :
    LET seen == ep[b].iceSeen
    IN /\ ep[b].pendingOffer.from = a => ep[b].peerId = a
       /\ \A k \in DOMAIN seen :
            LET c == seen[k].candidate
            IN (c.of = a /\ c.gen \in DOMAIN ep[a].pcs) =>
                 /\ ep[a].pcs[c.gen].local.type = "offer" =>
                      ep[b].pendingOffer = [from |-> a, sdp |-> Sdp("offer", a, c.gen)]
                 /\ ep[a].pcs[c.gen].local.type = "answer" =>
                      \/ ep[b].pc # 0 /\ ep[b].pcs[ep[b].pc].remote = Sdp("answer", a, c.gen)
                      \/ \E j \in DOMAIN ep[b].tasks :
                            ep[b].tasks[j].at = "N.srd" /\ ep[b].tasks[j].sdp = Sdp("answer", a, c.gen)
       /\ \A k \in DOMAIN seen : \A l \in DOMAIN seen :
            (k < l /\ seen[k].candidate.of = seen[l].candidate.of
                   /\ seen[k].candidate.gen = seen[l].candidate.gen) =>
              seen[k].candidate.n < seen[l].candidate.n

\* The callee has received the caller's request, its offer and then its
\* three candidates, in the order they were gathered.
C35_Witness ==
  \E b \in CallParties : \E a \in CallParties \ {b} :
    /\ ep[b].peerId = a
    /\ ep[b].pendingOffer = [from |-> a, sdp |-> Sdp("offer", a, ep[a].pc)]
    /\ Len(ep[b].iceSeen) = 3
    /\ \A k \in 1..3 : ep[b].iceSeen[k].candidate = Candidate(a, ep[a].pc, k)

\* C36: at every observer the presence notifications are causally ordered:
\* a participant-moved or participant-left it receives names an id it was
\* told of before by a room-state snapshot or a participant-joined, and a
\* participant-moved never names an id it was told has left.
C36_PresenceCausallyOrdered ==
  [][\A e \in Conns :
       OnPresence(e) =>
         LET m == Head(inbox[e])
         IN /\ m.event = PLAYER_MOVED =>
                 m.payload.id \in ep[e].heard /\ m.payload.id \notin ep[e].gone
            /\ m.event = PLAYER_LEFT => m.payload \in ep[e].heard]_vars

\* An observer that was told of a player, and then of its move, is about
\* to be told that the player has left.
C36_Witness ==
  \E e \in Conns : \E id \in Conns \ {e} :
    /\ ep[e].up
    /\ id \in ep[e].heard
    /\ id \in DOMAIN ep[e].others
    /\ ep[e].others[id] = <<10, 20>>
    /\ inbox[e] # <<>>
    /\ Head(inbox[e]).event = PLAYER_LEFT
    /\ Head(inbox[e]).payload = id

\* C37: whenever no notification is in flight, the remote players the scene
\* of a connected client that has joined a room tracks, with their
\* positions, are the relay's stored members of that room other than the
\* client, with their stored positions.
C37_SceneMatchesStore ==
  \A c \in Conns :
    (/\ \A t \in Conns : inbox[t] = <<>> /\ (ep[t].up \/ status[t] # "connected")
     /\ status[c] = "connected"
     /\ currentRoomId[c] # NULL
     /\ storeHas(rooms, currentRoomId[c])) =>
      LET room == rooms[currentRoomId[c]]
      IN /\ DOMAIN ep[c].others = ids(room) \ {c}
         /\ \A id \in DOMAIN ep[c].others :
              ep[c].others[id] = <<get(room, id).x, get(room, id).y>>

\* C39: any two distinct participants of the same room have different
\* colors as long as the room has never held more than 8 (the palette
\* length) members at once; a room of the model holds at most MaxConns
\* members, fewer than the palette has colors.
C39_DistinctColors ==
  /\ MaxConns <= Len(COLORS)
  /\ \A r \in DOMAIN rooms : \A i, j \in DOMAIN rooms[r] :
        i # j => rooms[r][i].color # rooms[r][j].color

\* A call:end or call:decline is on its way between the two endpoints.
TerminalInFlight ==
  \E e \in CallParties :
    \/ \E i \in DOMAIN out[e] : out[e][i].event \in {CALL_END, CALL_DECLINE}
    \/ \E i \in DOMAIN inbox[e] : inbox[e][i].event \in {CALL_END, CALL_DECLINE}

BothIdle == \A e \in CallParties : ep[e].state = "idle"

\* C38: after an endpoint of a call has ended, cancelled or declined it,
\* while both stay connected and no new call is started, the exchange of
\* terminal notifications ends (from some point on no call:end or
\* call:decline is in flight) and from some point on both endpoints are idle.
C38_EndingTerminates ==
  TerminalInFlight ~> [](~TerminalInFlight /\ BothIdle)

====
